---------------------------- MODULE Spec2Model ----------------------------
(***************************************************************************)
(* Model of the text-to-structured-data extraction pipeline of the         *)
(* financial report generator: the response sanitizer (fence stripping,    *)
(* brace slicing, JSON parse, regex repair), the date normalizer, the      *)
(* single-pass and category-partitioned extractors, the merge of the       *)
(* concurrent category extractions and the KPI derivation.                 *)
(*                                                                         *)
(* Texts are TLA+ strings read one character at a time.  Python values     *)
(* are tagged records [t |-> tag, v |-> payload]; a Python call is an      *)
(* outcome [exc |-> exception name or "none", val |-> value].              *)
(***************************************************************************)
EXTENDS Integers, Sequences, FiniteSets, TLC

(***************************************************************************)
(* Characters and Python str primitives                                    *)
(***************************************************************************)
Ch(s, i) == SubSeq(s, i, i)

\* s[a-1:b] for 1-based inclusive positions a..b, clamped to the text as a
\* Python slice is
Slice(s, a, b) ==
    LET lo == IF a < 1 THEN 1 ELSE a
        hi == IF b > Len(s) THEN Len(s) ELSE b
    IN  IF lo > hi THEN "" ELSE SubSeq(s, lo, hi)

\* Python str.strip() and the regex class \s, restricted to ASCII
IsSpace(c) == c \in {" ", "\n", "\t", "\r"}

IsDigit(c) == c \in {"0", "1", "2", "3", "4", "5", "6", "7", "8", "9"}

DigitVal(c) ==
    CASE c = "0" -> 0 [] c = "1" -> 1 [] c = "2" -> 2 [] c = "3" -> 3
      [] c = "4" -> 4 [] c = "5" -> 5 [] c = "6" -> 6 [] c = "7" -> 7
      [] c = "8" -> 8 [] c = "9" -> 9

\* the first position >= i that holds no whitespace (Len(s) + 1 if none)
LStripFrom(s, i) ==
    LET rest == {k \in i..Len(s) : ~IsSpace(Ch(s, k))}
    IN  IF rest = {} THEN Len(s) + 1
        ELSE CHOOSE k \in rest : \A m \in rest : k <= m

\* the last position <= j that holds no whitespace (0 if none)
RStripFrom(s, j) ==
    LET rest == {k \in 1..j : ~IsSpace(Ch(s, k))}
    IN  IF rest = {} THEN 0
        ELSE CHOOSE k \in rest : \A m \in rest : k >= m

\* str.strip()
Strip(s) == Slice(s, LStripFrom(s, 1), RStripFrom(s, Len(s)))

\* str.startswith(p) and str.endswith(p)
StartsWith(s, p) == Len(s) >= Len(p) /\ Slice(s, 1, Len(p)) = p
EndsWith(s, p) == Len(s) >= Len(p) /\ Slice(s, Len(s) - Len(p) + 1, Len(s)) = p

SetMin(S) == CHOOSE x \in S : \A y \in S : x <= y
SetMax(S) == CHOOSE x \in S : \A y \in S : x >= y

\* the 1-based positions of character c in s
Occurrences(s, c) == {i \in 1..Len(s) : Ch(s, i) = c}

\* str.find(c): 0-based index of the first occurrence, -1 when absent
Find(s, c) ==
    IF Occurrences(s, c) = {} THEN -1 ELSE SetMin(Occurrences(s, c)) - 1

\* str.rfind(c): 0-based index of the last occurrence, -1 when absent
RFind(s, c) ==
    IF Occurrences(s, c) = {} THEN -1 ELSE SetMax(Occurrences(s, c)) - 1

\* "".join(pieces[a..b]), split in halves to keep the evaluation shallow
RECURSIVE JoinRange(_, _, _)
JoinRange(pieces, a, b) ==
    IF a > b THEN ""
    ELSE IF a = b THEN pieces[a]
    ELSE LET m == (a + b) \div 2
         IN  JoinRange(pieces, a, m) \o JoinRange(pieces, m + 1, b)

Join(pieces) == JoinRange(pieces, 1, Len(pieces))

(***************************************************************************)
(* Python values                                                           *)
(***************************************************************************)
JNull == [t |-> "null", v |-> 0]
JNum(n) == [t |-> "num", v |-> n]
JStr(s) == [t |-> "str", v |-> s]
JArr(items) == [t |-> "arr", v |-> items]
\* a dict: its (key, value) members in insertion order
JObj(members) == [t |-> "obj", v |-> members]
Member(k, x) == [k |-> k, x |-> x]

\* the outcome of a Python call: a value, or a raised exception
Ok(x) == [exc |-> "none", val |-> x]
Raise(e) == [exc |-> e, val |-> JNull]

\* key in d
HasKey(d, key) == \E j \in 1..Len(d.v) : d.v[j].k = key

\* dict.get(key, default)
DictGet(d, key, default) ==
    IF HasKey(d, key)
    THEN d.v[CHOOSE j \in 1..Len(d.v) : d.v[j].k = key].x
    ELSE default

\* d[key] = x on the members of a dict: a key keeps its place, a new key
\* goes last
PutMember(members, key, x) ==
    IF \E j \in 1..Len(members) : members[j].k = key
    THEN [j \in 1..Len(members) |->
             IF members[j].k = key THEN Member(key, x) ELSE members[j]]
    ELSE Append(members, Member(key, x))


(***************************************************************************)
(* json.loads, for the JSON subset of the modelled alphabet: objects,      *)
(* arrays, strings with the escapes \" \\ \/ \n \r \t, integer literals,   *)
(* true, false, null.  A failure is Python's json.JSONDecodeError.         *)
(***************************************************************************)
JBool(b) == [t |-> "bool", v |-> b]

ParseFail == [ok |-> FALSE, v |-> JNull, p |-> 0]
Parsed(x, p) == [ok |-> TRUE, v |-> x, p |-> p]

\* json.decoder.WHITESPACE: [ \t\n\r]*
SkipWs(s, i) == LStripFrom(s, i)

\* the digits of NUMBER_RE after the first one
RECURSIVE ScanDigits(_, _, _)
ScanDigits(s, i, acc) ==
    IF i <= Len(s) /\ IsDigit(Ch(s, i))
    THEN ScanDigits(s, i + 1, acc * 10 + DigitVal(Ch(s, i)))
    ELSE [n |-> acc, p |-> i]

\* NUMBER_RE's integer part: -?(0|[1-9]\d*), read at position i
ScanNumber(s, i) ==
    LET neg == Ch(s, i) = "-"
        j == IF neg THEN i + 1 ELSE i
    IN  IF j > Len(s) \/ ~IsDigit(Ch(s, j)) THEN ParseFail
        ELSE IF Ch(s, j) = "0" THEN Parsed(JNum(0), j + 1)
        ELSE LET d == ScanDigits(s, j, 0)
             IN  Parsed(JNum(IF neg THEN 0 - d.n ELSE d.n), d.p)

UnescapeChar(c) ==
    CASE c = "\"" -> "\""
      [] c = "\\" -> "\\"
      [] c = "/" -> "/"
      [] c = "n" -> "\n"
      [] c = "r" -> "\r"
      [] c = "t" -> "\t"

\* the number of backslashes that end right before position j, counted no
\* further back than position i
RECURSIVE BackslashRun(_, _, _)
BackslashRun(s, i, j) ==
    IF j - 1 >= i /\ Ch(s, j - 1) = "\\" THEN 1 + BackslashRun(s, i, j - 1) ELSE 0

\* position k of a string body that starts at i is the backslash that opens
\* an escape, or the character such a backslash escapes
OpensEscape(s, i, k) == Ch(s, k) = "\\" /\ BackslashRun(s, i, k) % 2 = 0
IsEscaped(s, i, k) == BackslashRun(s, i, k) % 2 = 1

\* py_scanstring (strict): i is the position after the opening quote.  The
\* string ends at the first quote that is not escaped; a raw control
\* character or a backslash before anything but " \ / n r t is an error.
ScanString(s, i, acc) ==
    LET closing == {j \in i..Len(s) : Ch(s, j) = "\"" /\ ~IsEscaped(s, i, j)}
    IN  IF closing = {} THEN ParseFail
        ELSE LET e == SetMin(closing)
                 body == i..(e - 1)
                 piece(k) == IF OpensEscape(s, i, k) THEN ""
                             ELSE IF IsEscaped(s, i, k) THEN UnescapeChar(Ch(s, k))
                             ELSE Ch(s, k)
             IN  IF \/ \E k \in body : Ch(s, k) \in {"\n", "\t", "\r"}
                    \/ \E k \in body :
                          /\ IsEscaped(s, i, k)
                          /\ Ch(s, k) \notin {"\"", "\\", "/", "n", "r", "t"}
                 THEN ParseFail
                 ELSE Parsed(JStr(acc \o Join([k \in 1..(e - i) |-> piece(i + k - 1)])),
                             e + 1)

RECURSIVE ScanValue(_, _)
RECURSIVE ScanMembers(_, _, _)
RECURSIVE ScanElements(_, _, _)

\* JSONObject after its first key's opening quote was seen at position i
ScanMembers(s, i, acc) ==
    LET key == ScanString(s, i + 1, "")
    IN  IF ~key.ok THEN ParseFail
        ELSE LET c == SkipWs(s, key.p)
             IN  IF c > Len(s) \/ Ch(s, c) # ":" THEN ParseFail
                 ELSE LET val == ScanValue(s, SkipWs(s, c + 1))
                      IN  IF ~val.ok THEN ParseFail
                          ELSE LET d == SkipWs(s, val.p)
                                   all == PutMember(acc, key.v.v, val.v)
                               IN  IF d > Len(s) THEN ParseFail
                                   ELSE IF Ch(s, d) = "}" THEN Parsed(JObj(all), d + 1)
                                   ELSE IF Ch(s, d) # "," THEN ParseFail
                                   ELSE LET n == SkipWs(s, d + 1)
                                        IN  IF n <= Len(s) /\ Ch(s, n) = "\""
                                            THEN ScanMembers(s, n, all)
                                            ELSE ParseFail

\* JSONArray: i is the position of the next element
ScanElements(s, i, acc) ==
    LET val == ScanValue(s, i)
    IN  IF ~val.ok THEN ParseFail
        ELSE LET d == SkipWs(s, val.p)
                 all == Append(acc, val.v)
             IN  IF d > Len(s) THEN ParseFail
                 ELSE IF Ch(s, d) = "]" THEN Parsed(JArr(all), d + 1)
                 ELSE IF Ch(s, d) # "," THEN ParseFail
                 ELSE ScanElements(s, SkipWs(s, d + 1), all)

\* json.scanner.py_make_scanner._scan_once at position i
ScanValue(s, i) ==
    IF i > Len(s) THEN ParseFail
    ELSE LET c == Ch(s, i)
         IN  IF c = "\"" THEN ScanString(s, i + 1, "")
             ELSE IF c = "{"
                  THEN LET n == SkipWs(s, i + 1)
                       IN  IF n > Len(s) THEN ParseFail
                           ELSE IF Ch(s, n) = "}" THEN Parsed(JObj(<<>>), n + 1)
                           ELSE IF Ch(s, n) = "\"" THEN ScanMembers(s, n, <<>>)
                           ELSE ParseFail
             ELSE IF c = "["
                  THEN LET n == SkipWs(s, i + 1)
                       IN  IF n <= Len(s) /\ Ch(s, n) = "]"
                           THEN Parsed(JArr(<<>>), n + 1)
                           ELSE ScanElements(s, n, <<>>)
             ELSE IF Slice(s, i, i + 3) = "null" THEN Parsed(JNull, i + 4)
             ELSE IF Slice(s, i, i + 3) = "true" THEN Parsed(JBool(TRUE), i + 4)
             ELSE IF Slice(s, i, i + 4) = "false" THEN Parsed(JBool(FALSE), i + 5)
             ELSE IF c = "-" \/ IsDigit(c) THEN ScanNumber(s, i)
             ELSE ParseFail

\* json.loads(s): one value, then only whitespace
Decoded(s, r) ==
    IF r.ok /\ SkipWs(s, r.p) = Len(s) + 1
    THEN Ok(r.v)
    ELSE Raise("JSONDecodeError")

json_loads(s) == Decoded(s, ScanValue(s, SkipWs(s, 1)))


(***************************************************************************)
(* Response Sanitizer                                                      *)
(***************************************************************************)
\* A string literal of this module cannot hold the backtick character, so
\* "~" stands for it in every text: no operation of the program looks at
\* "~", and the backtick only matters to the two fence tests below.
Backtick == "~"
Fence == Backtick \o Backtick \o Backtick
FenceJson == Fence \o "json"

\* "Clean the response" and "Try to find JSON in the response": strip, drop
\* a leading json fence and a trailing fence, strip, slice first "{" .. last "}"
\* response[7:] when the response starts with the json fence
DropFenceJson(response) ==
    IF StartsWith(response, FenceJson) THEN Slice(response, 8, Len(response)) ELSE response

\* response[:-3] when the response ends with a fence
DropFence(response) ==
    IF EndsWith(response, Fence) THEN Slice(response, 1, Len(response) - 3) ELSE response

\* response[json_start:json_end] when both braces are found in this order
SliceObject(response, json_start, json_end) ==
    IF json_start # -1 /\ json_end > json_start
    THEN Slice(response, json_start + 1, json_end)
    ELSE response

FindObject(response) ==
    SliceObject(response, Find(response, "{"), RFind(response, "}") + 1)

CleanResponse(response) ==
    FindObject(Strip(DropFence(DropFenceJson(Strip(response)))))

\* re.sub(r',(\s*[}\]])', r'\1', s): drop a comma that only whitespace
\* separates from a closing brace or bracket
\* A match starts at a comma and ends at the closer, so no two matches
\* overlap and every such comma is dropped.
TrailingComma(s, i) ==
    /\ Ch(s, i) = ","
    /\ LStripFrom(s, i + 1) <= Len(s)
    /\ Ch(s, LStripFrom(s, i + 1)) \in {"}", "]"}

fix_trailing_commas(s) ==
    Join([i \in 1..Len(s) |-> IF TrailingComma(s, i) THEN "" ELSE Ch(s, i)])

\* re.sub(r'}\s*{', '},{', s): a match starts at a "}" and ends at the next
\* "{" with only whitespace between them, so no two matches overlap
ClosesBeforeOpen(s, i) ==
    /\ Ch(s, i) = "}"
    /\ LStripFrom(s, i + 1) <= Len(s)
    /\ Ch(s, LStripFrom(s, i + 1)) = "{"

\* position i is the whitespace or the "{" that such a match consumes
InsideCloseOpen(s, i) ==
    /\ IsSpace(Ch(s, i)) \/ Ch(s, i) = "{"
    /\ RStripFrom(s, i - 1) >= 1
    /\ ClosesBeforeOpen(s, RStripFrom(s, i - 1))
    /\ LStripFrom(s, i) <= Len(s)
    /\ Ch(s, LStripFrom(s, i)) = "{"

fix_missing_commas(s) ==
    Join([i \in 1..Len(s) |->
             IF ClosesBeforeOpen(s, i) THEN "},{"
             ELSE IF InsideCloseOpen(s, i) THEN ""
             ELSE Ch(s, i)])

\* the lookahead (?=[^,}\]]*[,}\]]): some "," "}" or "]" follows position i
DelimiterFollows(s, i) ==
    \E j \in (i + 1)..Len(s) : Ch(s, j) \in {",", "}", "]"}

\* re.sub(r'(?<!\\)"(?=[^,}\]]*[,}\]])', r'\\"', s): a backslash is put
\* before every quote that no backslash precedes and a delimiter follows
UnescapedQuote(s, i) ==
    /\ Ch(s, i) = "\""
    /\ (i = 1 \/ Ch(s, i - 1) # "\\")
    /\ DelimiterFollows(s, i)

fix_unescaped_quotes(s) ==
    Join([i \in 1..Len(s) |-> IF UnescapedQuote(s, i) THEN "\\\"" ELSE Ch(s, i)])

\* the three fixes, each applied to the previous result
fixed_response(response) ==
    fix_unescaped_quotes(fix_missing_commas(fix_trailing_commas(response)))

\* "Enhanced JSON parsing with error recovery": json.loads, and on failure
\* json.loads of the fixed text; if that fails too the first error is raised
SecondParse(second) ==
    IF second.exc = "none" THEN second ELSE Raise("JSONDecodeError")

FirstParse(response, first) ==
    IF first.exc = "none" THEN first
    ELSE SecondParse(json_loads(fixed_response(response)))

ParseWithRecovery(response) == FirstParse(response, json_loads(response))

\* the sanitizer of single-pass mode: the cleaning and parsing steps of
\* generate_financial_slides, applied to a response text
SinglePassSanitize(response) == ParseWithRecovery(CleanResponse(response))

\* len(x) of the values json.loads returns
HasLen(x) == x.t \in {"arr", "str", "obj"}

\* The rest of _parse_json_response once json.loads has ended: the handler
\* of JSONDecodeError, or the log line with len(parsed_data.get('metrics', []))
\* and the return.  First the same without the len() of the log line.
LoadedMetrics_unlogged(parsed_data) ==
    IF parsed_data.exc # "none" THEN Ok(JObj(<<Member("metrics", JArr(<<>>))>>))
    ELSE IF parsed_data.val.t # "obj" THEN Raise("AttributeError")
    ELSE parsed_data
LoadedMetrics(parsed_data) ==
    IF parsed_data.exc # "none" THEN Ok(JObj(<<Member("metrics", JArr(<<>>))>>))
    ELSE IF parsed_data.val.t # "obj" THEN Raise("AttributeError")
    ELSE IF ~HasLen(DictGet(parsed_data.val, "metrics", JArr(<<>>)))
         THEN Raise("TypeError")
    ELSE parsed_data

\* _parse_json_response(response, metric_type): response is what the
\* completion call returned (JStr text, or JNull for None)
parse_json_response(response) ==
    IF response.t # "str" THEN Raise("AttributeError")
    ELSE LoadedMetrics(json_loads(CleanResponse(response.v)))


(***************************************************************************)
(* Date Normalizer                                                         *)
(***************************************************************************)
UpperLetters == "ABCDEFGHIJKLMNOPQRSTUVWXYZ"
LowerLetters == "abcdefghijklmnopqrstuvwxyz"

\* str.lower() of one character
LowerCh(c) ==
    IF \E k \in 1..26 : Ch(UpperLetters, k) = c
    THEN Ch(LowerLetters, CHOOSE k \in 1..26 : Ch(UpperLetters, k) = c)
    ELSE c

\* str.lower()
Lower(s) == Join([i \in 1..Len(s) |-> LowerCh(Ch(s, i))])

\* the month names strptime matches for %b and %B, compared in lower case
MonthAbbr ==
    <<"jan", "feb", "mar", "apr", "may", "jun",
      "jul", "aug", "sep", "oct", "nov", "dec">>
MonthFull ==
    <<"january", "february", "march", "april", "may", "june",
      "july", "august", "september", "october", "november", "december">>

AllDigits(s) == \A i \in 1..Len(s) : IsDigit(Ch(s, i))

\* int() of a run of four digits
Year4(s) ==
    DigitVal(Ch(s, 1)) * 1000 + DigitVal(Ch(s, 2)) * 100
    + DigitVal(Ch(s, 3)) * 10 + DigitVal(Ch(s, 4))

\* %Y: exactly four digits, and a year datetime accepts (1..9999)
IsYear(s) == Len(s) = 4 /\ AllDigits(s) /\ Year4(s) >= 1

\* %m: 1[0-2]|0[1-9]|[1-9]
IsMonthNumber(s) ==
    \/ Len(s) = 1 /\ IsDigit(s) /\ s # "0"
    \/ Len(s) = 2 /\ Ch(s, 1) = "0" /\ IsDigit(Ch(s, 2)) /\ Ch(s, 2) # "0"
    \/ s \in {"10", "11", "12"}

MonthNumber(s) ==
    IF Len(s) = 1 THEN DigitVal(s)
    ELSE DigitVal(Ch(s, 1)) * 10 + DigitVal(Ch(s, 2))

\* a datetime as its (year, month, day), and the order datetimes sort in
DateTime(y, m, d) == [year |-> y, month |-> m, day |-> d]
DateKey(dt) == dt.year * 10000 + dt.month * 100 + dt.day

NoDate == [ok |-> FALSE, dt |-> DateTime(0, 0, 0)]
Date(dt) == [ok |-> TRUE, dt |-> dt]

\* datetime.strptime(s, "<name> %Y") for the month names `names`: a month
\* name in any case, one or more whitespace, four digits, nothing else
StrpNameYear(s, names) ==
    LET low == Lower(s)
        fits(m) ==
            /\ StartsWith(low, names[m])
            /\ Len(s) >= Len(names[m]) + 5
            /\ \A k \in (Len(names[m]) + 1)..(Len(s) - 4) : IsSpace(Ch(s, k))
            /\ IsYear(Slice(s, Len(s) - 3, Len(s)))
    IN  IF \E m \in 1..12 : fits(m)
        THEN Date(DateTime(Year4(Slice(s, Len(s) - 3, Len(s))),
                           CHOOSE m \in 1..12 : fits(m), 1))
        ELSE NoDate

\* datetime.strptime(s, "%m/%Y")
StrpMonthSlashYear(s) ==
    LET cut == Find(s, "/")
        mon == Slice(s, 1, cut)
        yr == Slice(s, cut + 2, Len(s))
    IN  IF cut >= 1 /\ IsMonthNumber(mon) /\ IsYear(yr)
        THEN Date(DateTime(Year4(yr), MonthNumber(mon), 1))
        ELSE NoDate

\* datetime.strptime(s, "%Y-%m")
StrpYearDashMonth(s) ==
    LET yr == Slice(s, 1, 4)
        mon == Slice(s, 6, Len(s))
    IN  IF Len(s) >= 6 /\ Ch(s, 5) = "-" /\ IsYear(yr) /\ IsMonthNumber(mon)
        THEN Date(DateTime(Year4(yr), MonthNumber(mon), 1))
        ELSE NoDate

\* a date before every other instead
FarFuture_past == DateTime(1, 1, 1)
\* the far future date that sends an unparseable label to the end
FarFuture == DateTime(9999, 12, 31)

\* _parse_date with the format "%b %Y" alone
parse_date_abbr_only(date_str) ==
    IF date_str.t # "str" THEN FarFuture
    ELSE IF StrpNameYear(date_str.v, MonthAbbr).ok
         THEN StrpNameYear(date_str.v, MonthAbbr).dt
    ELSE FarFuture

\* _parse_date(date_str): the first of the four formats that matches; a
\* value that is no string makes strptime raise TypeError, which the outer
\* except turns into the far future date too
parse_date(date_str) ==
    IF date_str.t # "str" THEN FarFuture
    ELSE IF StrpNameYear(date_str.v, MonthAbbr).ok
         THEN StrpNameYear(date_str.v, MonthAbbr).dt
    ELSE IF StrpNameYear(date_str.v, MonthFull).ok
         THEN StrpNameYear(date_str.v, MonthFull).dt
    ELSE IF StrpMonthSlashYear(date_str.v).ok
         THEN StrpMonthSlashYear(date_str.v).dt
    ELSE IF StrpYearDashMonth(date_str.v).ok
         THEN StrpYearDashMonth(date_str.v).dt
    ELSE FarFuture

\* the key of a point x: self._parse_date(x.get('name', ''))
PointKey(x) == DateKey(parse_date(DictGet(x, "name", JStr(""))))

\* the keys of the first n items, each computed once
RECURSIVE KeysOf(_, _)
KeysOf(items, n) ==
    IF n = 0 THEN <<>> ELSE Append(KeysOf(items, n - 1), PointKey(items[n]))

\* the items in the order of their keys, an item behind the items before it
\* in the list whose key is not larger
SortedWithKeys(items, keys) ==
    [r \in 1..Len(items) |->
        items[CHOOSE i \in 1..Len(items) :
                 Cardinality({j \in 1..Len(items) :
                     keys[j] < keys[i] \/ (keys[j] = keys[i] /\ j < i)}) + 1 = r]]

\* the same with items of equal key reversed, as a sort that is not stable
\* may leave them
SortedWithKeys_unstable(items, keys) ==
    [r \in 1..Len(items) |->
        items[CHOOSE i \in 1..Len(items) :
                 Cardinality({j \in 1..Len(items) :
                     keys[j] < keys[i] \/ (keys[j] = keys[i] /\ j > i)}) + 1 = r]]

\* a sort that is not stable
SortedByKey_unstable(items) ==
    SortedWithKeys_unstable(items, KeysOf(items, Len(items)))
\* sorted(items, key=PointKey): every key is computed once, and the sort is
\* stable
SortedByKey(items) == SortedWithKeys(items, KeysOf(items, Len(items)))

\* bool(x) of a value json.loads returns
Truthy(x) ==
    CASE x.t = "null" -> FALSE
      [] x.t = "bool" -> x.v
      [] x.t = "num" -> x.v # 0
      [] x.t = "str" -> x.v # ""
      [] x.t = "arr" -> x.v # <<>>
      [] x.t = "obj" -> x.v # <<>>

\* _sort_chart_data_chronologically(chart_data): called with a truthy value
\* that has .copy(), so a list or a dict.  A point that is no dict makes
\* x.get raise inside sorted(); the except returns the data unsorted.
\* Iterating a dict yields its keys, which are strings, so the same holds.
sort_chart_data_chronologically(chart_data) ==
    IF ~Truthy(chart_data) THEN chart_data
    ELSE IF chart_data.t # "arr" THEN chart_data
    ELSE IF \E i \in 1..Len(chart_data.v) : chart_data.v[i].t # "obj"
         THEN chart_data
    ELSE JArr(SortedByKey(chart_data.v))


(***************************************************************************)
(* Completion Client, as the extractors see it                             *)
(***************************************************************************)
\* what one completion call does: it raises, it returns None (a message
\* without content), or it returns a text
CallRaises == [k |-> "raise", text |-> ""]
CallNone == [k |-> "none", text |-> ""]
CallText(text) == [k |-> "text", text |-> text]

\* AIService.generate_completion(messages): any upstream failure is raised
\* again as Exception; otherwise the message content is returned
generate_completion(call) ==
    IF call.k = "raise" THEN Raise("Exception")
    ELSE IF call.k = "none" THEN Ok(JNull)
    ELSE Ok(JStr(call.text))

(***************************************************************************)
(* Metric Extractor                                                        *)
(***************************************************************************)
\* {"metrics": []}
EmptyMetrics == JObj(<<Member("metrics", JArr(<<>>))>>)

\* str(n) for n >= 0
RECURSIVE IntToStr(_)
IntToStr(n) ==
    IF n < 10 THEN Ch("0123456789", n + 1)
    ELSE IntToStr(n \div 10) \o Ch("0123456789", (n % 10) + 1)

\* datetime.now() formatted "%Y-%m-%d" and "%B %Y": the day of the run
Today == "2024-09-30"
ThisMonth == "September 2024"

\* iter(x): the items of a list, the characters of a str, the keys of a dict
CanIterate(x) == x.t \in {"arr", "str", "obj"}
Iterate(x) ==
    CASE x.t = "arr" -> x.v
      [] x.t = "str" -> [i \in 1..Len(x.v) |-> JStr(Ch(x.v, i))]
      [] x.t = "obj" -> [i \in 1..Len(x.v) |-> JStr(x.v[i].k)]

\* extract_revenue_metrics_sync, extract_profitability_metrics_sync,
\* extract_operational_metrics_sync and their three _async twins: the six
\* differ in their prompts only.  Any exception gives {"metrics": []}.
\* the handler "except Exception" of the six: {"metrics": []}
OrEmptyMetrics(result) ==
    IF result.exc # "none" THEN Ok(EmptyMetrics) ELSE result

ExtractedFrom(response) ==
    IF response.exc # "none" THEN response
    ELSE parse_json_response(response.val)

\* the extract functions without their "except Exception" handler
extract_metrics_unhandled(call) == ExtractedFrom(generate_completion(call))
extract_metrics(call) == OrEmptyMetrics(ExtractedFrom(generate_completion(call)))

\* the metrics one gathered result adds in the merge: an exception object
\* counts as {"metrics": []}; .get needs a dict and extend an iterable
ExtendWith(metrics) ==
    IF ~CanIterate(metrics) THEN Raise("TypeError") ELSE Ok(JArr(Iterate(metrics)))

MetricsOf(r) ==
    IF r.t # "obj" THEN Raise("AttributeError")
    ELSE ExtendWith(DictGet(r, "metrics", JArr(<<>>)))

MergePart(result) ==
    MetricsOf(IF result.exc # "none" THEN EmptyMetrics ELSE result.val)

\* _merge_concurrent_extractions(revenue_result, profitability_result,
\* operational_result)
\* merged_data of _merge_concurrent_extractions
MergedData(all_metrics) ==
    JObj(<<Member("title", JStr("Financial Analysis Report")),
           Member("subtitle", JStr("Concurrent Analysis - "
                                   \o IntToStr(Len(all_metrics)) \o " Metrics")),
           Member("date", JStr(Today)),
           Member("metrics", JArr(all_metrics))>>)

\* all_metrics after the three extend calls, revenue first
ExtendAll(rev, prof, oper) ==
    IF rev.exc # "none" THEN rev
    ELSE IF prof.exc # "none" THEN prof
    ELSE IF oper.exc # "none" THEN oper
    ELSE Ok(MergedData(rev.val.v \o prof.val.v \o oper.val.v))

merge_concurrent_extractions(revenue_result, profitability_result, operational_result) ==
    ExtendAll(MergePart(revenue_result), MergePart(profitability_result),
              MergePart(operational_result))

\* _create_default_structure(financial_text)
create_default_structure ==
    JObj(<<Member("title", JStr("Financial Analysis Report")),
           Member("subtitle", JStr("Comprehensive Financial Overview")),
           Member("date", JStr(ThisMonth)),
           Member("metrics", JArr(<<>>)),
           Member("comparisons", JNull)>>)

\* p in s for two strings
IsSubstring(p, s) == \E i \in 1..(Len(s) + 1) : Slice(s, i, i + Len(p) - 1) = p

\* 'chart_data' in metric, for a metric the operator is defined on
SupportsIn(metric) == metric.t \in {"obj", "str", "arr"}
HasChartData(metric) ==
    CASE metric.t = "obj" -> HasKey(metric, "chart_data")
      [] metric.t = "str" -> IsSubstring("chart_data", metric.v)
      [] metric.t = "arr" ->
           \E i \in 1..Len(metric.v) : metric.v[i] = JStr("chart_data")

\* one pass of the loop "Sort chart_data chronologically for each metric":
\* the metric afterwards, or ok = FALSE when the pass raises
SortFails == [ok |-> FALSE, metric |-> JNull]
SortChartData(metric, chart_data) ==
    IF ~Truthy(chart_data) THEN [ok |-> TRUE, metric |-> metric]
    ELSE IF chart_data.t \notin {"arr", "obj"} THEN SortFails
    ELSE [ok |-> TRUE,
          metric |-> JObj(PutMember(metric.v, "chart_data",
                         sort_chart_data_chronologically(chart_data)))]

SortMetric(metric) ==
    IF ~SupportsIn(metric) THEN SortFails
    ELSE IF ~HasChartData(metric) THEN [ok |-> TRUE, metric |-> metric]
    ELSE IF metric.t # "obj" THEN SortFails
    ELSE SortChartData(metric, DictGet(metric, "chart_data", JNull))

\* the debug loop shows the first 3 points of every metric
ShownPoints == 3

\* format(x, ",") works for numbers (bool is an int) and raises otherwise
FormatsWithComma(x) == x.t \in {"num", "bool"}

\* one pass of the loop "Debug: Print what AI extracted" ends without raising
DebugShowsPoints(chart_data) ==
    /\ HasLen(chart_data)
    /\ Truthy(chart_data) =>
         /\ chart_data.t = "arr"
         /\ \A i \in 1..Len(chart_data.v) :
              i <= ShownPoints =>
                /\ chart_data.v[i].t = "obj"
                /\ FormatsWithComma(DictGet(chart_data.v[i], "series1", JNum(0)))

DebugShows(metric) ==
    /\ metric.t = "obj"
    /\ DebugShowsPoints(DictGet(metric, "chart_data", JArr(<<>>)))

\* generate_financial_slides(financial_text) and
\* generate_financial_slides_async(financial_text), whose bodies are the
\* same: the completion call, the sanitizer, the sort of every metric's
\* chart_data and the debug loop, all inside one try whose handlers return
\* the default structure
\* the debug loop over the sorted metrics, and "return parsed_data"
SlidesOfSorted(parsed_data, metrics, sorted_metrics) ==
    IF \E i \in 1..Len(sorted_metrics) : ~sorted_metrics[i].ok
    THEN Ok(create_default_structure)
    ELSE IF \E i \in 1..Len(sorted_metrics) : ~DebugShows(sorted_metrics[i].metric)
         THEN Ok(create_default_structure)
    ELSE IF metrics.t # "arr" \/ ~HasKey(parsed_data.val, "metrics") THEN parsed_data
    ELSE Ok(JObj(PutMember(parsed_data.val.v, "metrics",
                           JArr([i \in 1..Len(sorted_metrics) |->
                                    sorted_metrics[i].metric]))))

\* the loop "for metric in parsed_data.get('metrics', [])"
SlidesOfMetrics(parsed_data, metrics) ==
    IF ~CanIterate(metrics) THEN Ok(create_default_structure)
    ELSE SlidesOfSorted(parsed_data, metrics,
                        [i \in 1..Len(Iterate(metrics)) |-> SortMetric(Iterate(metrics)[i])])

SlidesOfParsed(parsed_data) ==
    IF parsed_data.exc # "none" THEN Ok(create_default_structure)
    ELSE IF parsed_data.val.t # "obj" THEN Ok(create_default_structure)
    ELSE SlidesOfMetrics(parsed_data, DictGet(parsed_data.val, "metrics", JArr(<<>>)))

\* the same without the handler "except Exception" for a failed call
SlidesOfResponse_unhandled(response) ==
    IF response.exc # "none" THEN response
    ELSE IF response.val.t # "str" THEN Ok(create_default_structure)
    ELSE SlidesOfParsed(SinglePassSanitize(response.val.v))
SlidesOfResponse(response) ==
    IF response.exc # "none" THEN Ok(create_default_structure)
    ELSE IF response.val.t # "str" THEN Ok(create_default_structure)
    ELSE SlidesOfParsed(SinglePassSanitize(response.val.v))

generate_financial_slides(call) == SlidesOfResponse(generate_completion(call))


(***************************************************************************)
(* Preprocessor                                                            *)
(***************************************************************************)
\* the request's text, and a text the preprocessing call may return
RawText == "Income $88,912 in Feb 2021 vs $84,629 in Jan 2021"
CleanedText == "Income: Jan 2021 84629, Feb 2021 88912"

\* the preprocessing stage without its fallback: a call that fails leaves
\* no text
PreprocessedFrom_unhandled(raw_financial_text, response) ==
    IF response.exc # "none" \/ response.val.t # "str" THEN "" ELSE response.val.v
\* preprocess_with_deepseek_async(raw_financial_text) and
\* preprocess_with_deepseek(raw_financial_text), whose bodies are the same:
\* the response, or the raw text when the call raises; len(None) in the
\* log line raises TypeError, so a call without text gives the raw text too
PreprocessedFrom(raw_financial_text, response) ==
    IF response.exc # "none" THEN raw_financial_text
    ELSE IF response.val.t # "str" THEN raw_financial_text
    ELSE response.val.v

preprocess_with_deepseek(raw_financial_text, call) ==
    PreprocessedFrom(raw_financial_text, generate_completion(call))

(***************************************************************************)
(* KPI Deriver: the KPI strings of a statistic slide                       *)
(***************************************************************************)
\* str.upper()
UpperCh(c) ==
    IF \E k \in 1..26 : Ch(LowerLetters, k) = c
    THEN Ch(UpperLetters, CHOOSE k \in 1..26 : Ch(LowerLetters, k) = c)
    ELSE c
Upper(s) == Join([i \in 1..Len(s) |-> UpperCh(Ch(s, i))])

\* str(n) of an int
SignedStr(n) == IF n < 0 THEN "-" \o IntToStr(-n) ELSE IntToStr(n)

\* int(s): the value of a text of digits, ValueError for any other text the
\* model passes to it
RECURSIVE DigitsValue(_, _)
DigitsValue(s, n) ==
    IF n = 0 THEN 0 ELSE 10 * DigitsValue(s, n - 1) + DigitVal(Ch(s, n))
PyInt(s) ==
    IF s # "" /\ AllDigits(s) THEN Ok(DigitsValue(s, Len(s))) ELSE Raise("ValueError")

\* The pattern of the year search is written r'20\d{{2}}' in a string that
\* is no f-string, so re reads the doubled braces as they stand: "20", one
\* digit, the character "{" twice, then "}".  A match at position i of s:
YearPatternAt(s, i) ==
    /\ Slice(s, i, i + 1) = "20"
    /\ IsDigit(Slice(s, i + 2, i + 2))
    /\ Slice(s, i + 3, i + 5) = "{{}"

\* re.search(r'20\d{{2}}', s): the leftmost match and its group()
NoMatch == [found |-> FALSE, group |-> ""]
YearSearch(s) ==
    IF \E i \in 1..Len(s) : YearPatternAt(s, i)
    THEN [found |-> TRUE,
          group |-> Slice(s, SetMin({i \in 1..Len(s) : YearPatternAt(s, i)}),
                          SetMin({i \in 1..Len(s) : YearPatternAt(s, i)}) + 5)]
    ELSE NoMatch

months ==
    <<"jan", "feb", "mar", "apr", "may", "jun",
      "jul", "aug", "sep", "oct", "nov", "dec",
      "january", "february", "march", "april", "may", "june",
      "july", "august", "september", "october", "november", "december">>
quarters == <<"q1", "q2", "q3", "q4", "quarter">>

\* any(word in s for word in words)
AnyIn(words, s) == \E k \in 1..Len(words) : IsSubstring(words[k], s)

\* "->" stands for the arrow character of the labels
Arrow == " -> "
ComparisonLabel(kind, prev_label, latest_label) ==
    kind \o " (" \o prev_label \o Arrow \o latest_label \o ")"

\* the classification once a year-over-year result is ruled out
DetectByTokens(prev_label, latest_label, prev, latest) ==
    IF AnyIn(quarters, prev) /\ AnyIn(quarters, latest)
    THEN Ok(ComparisonLabel("QoQ", prev_label, latest_label))
    ELSE IF AnyIn(months, prev) /\ AnyIn(months, latest)
    THEN Ok(ComparisonLabel("MoM", prev_label, latest_label))
    ELSE Ok(ComparisonLabel("vs Previous", prev_label, latest_label))

\* "Year-over-Year detection", given int() of the two matched groups
DetectByYears(prev_label, latest_label, prev, latest, prev_year_val, latest_year_val) ==
    IF prev_year_val.exc # "none" THEN prev_year_val
    ELSE IF latest_year_val.exc # "none" THEN latest_year_val
    ELSE IF latest_year_val.val - prev_year_val.val >= 1
            \/ prev_year_val.val - latest_year_val.val >= 1
    THEN Ok(ComparisonLabel("YoY", prev_label, latest_label))
    ELSE DetectByTokens(prev_label, latest_label, prev, latest)

DetectLowered(prev_label, latest_label, prev, latest, prev_year, latest_year) ==
    IF prev_year.found /\ latest_year.found
    THEN DetectByYears(prev_label, latest_label, prev, latest,
                       PyInt(prev_year.group), PyInt(latest_year.group))
    ELSE DetectByTokens(prev_label, latest_label, prev, latest)

DetectYears(prev_label, latest_label, prev, latest) ==
    DetectLowered(prev_label, latest_label, prev, latest,
                  YearSearch(prev), YearSearch(latest))

\* detect_comparison_type(prev_label, latest_label) of
\* _generate_statistic_slide, for two str labels
detect_comparison_type(prev_label, latest_label) ==
    IF prev_label = "" \/ latest_label = "" THEN Ok("vs Previous")
    ELSE DetectYears(prev_label, latest_label, Lower(prev_label), Lower(latest_label))

\* x or "": the label as a str; any other truthy value has no .lower()
LabelOr(x) == IF Truthy(x) THEN x ELSE JStr("")

\* the label of a KPI whose percentage is shown
LabelFor(prev_label, latest_label) ==
    IF prev_label = JStr("") \/ latest_label = JStr("") THEN Ok("vs Previous")
    ELSE IF prev_label.t # "str" \/ latest_label.t # "str" THEN Raise("AttributeError")
    ELSE detect_comparison_type(prev_label.v, latest_label.v)

\* f"{sign}{pct}%" with sign "+" for pct >= 0
PercentText(pct) == (IF pct >= 0 THEN "+" ELSE "") \o SignedStr(pct) \o "%"

NoKpi == Ok([percent |-> "", label |-> ""])
KpiWithLabel(pct, label) ==
    IF label.exc # "none" THEN label
    ELSE Ok([percent |-> PercentText(pct), label |-> label.val])

\* "if vs is not None and isinstance(vs, dict) and vs.get('pct') is not None":
\* the percentage the model supplied is shown as it stands
PrevKpi(k, vs) ==
    IF ~Truthy(vs) \/ vs.t # "obj" THEN NoKpi
    ELSE IF DictGet(vs, "pct", JNull).t = "null" THEN NoKpi
    ELSE IF DictGet(vs, "pct", JNull).t # "num" THEN Raise("TypeError")
    ELSE KpiWithLabel(DictGet(vs, "pct", JNull).v,
                      LabelFor(LabelOr(DictGet(k, "previous_label", JNull)),
                               LabelOr(DictGet(k, "latest_label", JNull))))

\* "Handle YoY separately if provided": the label is "YoY" unless both of
\* its own labels are given
YoyLabel(yoy_prev, yoy_latest) ==
    IF yoy_prev = JStr("") \/ yoy_latest = JStr("") THEN Ok("YoY")
    ELSE LabelFor(yoy_prev, yoy_latest)

YoyKpi(k, yoy) ==
    IF ~Truthy(yoy) \/ yoy.t # "obj" THEN NoKpi
    ELSE IF DictGet(yoy, "pct", JNull).t = "null" THEN NoKpi
    ELSE IF DictGet(yoy, "pct", JNull).t # "num" THEN Raise("TypeError")
    ELSE KpiWithLabel(DictGet(yoy, "pct", JNull).v,
                      YoyLabel(LabelOr(DictGet(k, "yoy_previous_label", JNull)),
                               LabelOr(DictGet(k, "yoy_latest_label", JNull))))

\* metric.get("kpis") or {}
KpisOr(x) == IF Truthy(x) THEN x ELSE JObj(<<>>)

BothKpis(prev, yoy) ==
    IF prev.exc # "none" THEN prev
    ELSE IF yoy.exc # "none" THEN yoy
    ELSE Ok([prev |-> prev.val, yoy |-> yoy.val])

SlideKpis(k) ==
    IF k.t # "obj" THEN Raise("AttributeError")
    ELSE BothKpis(PrevKpi(k, DictGet(k, "vs_previous", JNull)),
                  YoyKpi(k, DictGet(k, "yoy", JNull)))

\* the TSX file of a statistic slide, as the defaults of its schema
StatisticSlide(metric, metric_name, kpis) ==
    IF kpis.exc # "none" THEN kpis
    ELSE Ok([title |-> Upper(metric_name),
             chart_data |-> DictGet(metric, "chart_data", JArr(<<>>)),
             kpi_prev_percent |-> kpis.val.prev.percent,
             kpi_prev_label |-> kpis.val.prev.label,
             kpi_yoy_percent |-> kpis.val.yoy.percent,
             kpi_yoy_label |-> kpis.val.yoy.label])

\* _generate_statistic_slide(metric, output_path)
generate_statistic_slide(metric) ==
    IF metric.t # "obj" THEN Raise("AttributeError")
    ELSE IF DictGet(metric, "name", JStr("Metric")).t # "str" THEN Raise("AttributeError")
    ELSE StatisticSlide(metric, DictGet(metric, "name", JStr("Metric")).v,
                        SlideKpis(KpisOr(DictGet(metric, "kpis", JNull))))

(***************************************************************************)
(* Slide renderer: what is read back from a slide, and the dashboard       *)
(***************************************************************************)
\* parse_tsx_with_data(file_path) for a statistic slide whose texts hold no
\* quote and no bracket: the defaults are read back as they were written,
\* and chartData only if its default is a list
parse_tsx_with_data(slide) ==
    [title |-> slide.title,
     chart_data |-> IF slide.chart_data.t = "arr" THEN slide.chart_data.v ELSE <<>>,
     kpi_prev_percent |-> slide.kpi_prev_percent,
     kpi_prev_label |-> slide.kpi_prev_label,
     kpi_yoy_percent |-> slide.kpi_yoy_percent,
     kpi_yoy_label |-> slide.kpi_yoy_label]

\* "Build KPI cards from parsed KPI fields": one card at most, the primary
\* comparison before the year-over-year one
kpi_cards(data) ==
    IF data.kpi_prev_percent # ""
    THEN <<[percent |-> data.kpi_prev_percent, label |-> data.kpi_prev_label]>>
    ELSE IF data.kpi_yoy_percent # ""
    THEN <<[percent |-> data.kpi_yoy_percent, label |-> data.kpi_yoy_label]>>
    ELSE <<>>

\* the characters of the labels in the order of their code points
CodeOrder == " $-/0123456789ABCDEFGHIJKLMNOPQRSTUVWXYZabcdefghijklmnopqrstuvwxyz{}"
Code(c) == CHOOSE k \in 1..Len(CodeOrder) : Ch(CodeOrder, k) = c

\* a < b for two str
StrLess(a, b) ==
    \E i \in 1..(Len(a) + 1) :
        /\ Slice(a, 1, i - 1) = Slice(b, 1, i - 1)
        /\ i <= Len(b)
        /\ (i = Len(a) + 1 \/ Code(Ch(a, i)) < Code(Ch(b, i)))

\* the points of the dashboard are dicts with a str name
NameOf(point) == DictGet(point, "name", JStr("")).v
Series1(point) == DictGet(point, "series1", JNum(0)).v

\* sorted(chart_data, key=lambda x: x.get('name', '')): by the label as text
SortedByName(items) ==
    LET n == Len(items)
        rank(i) ==
            Cardinality({j \in 1..n :
                \/ StrLess(NameOf(items[j]), NameOf(items[i]))
                \/ NameOf(items[j]) = NameOf(items[i]) /\ j < i}) + 1
    IN  [r \in 1..n |-> items[CHOOSE i \in 1..n : rank(i) = r]]

\* next((d for d in sorted_data if label in d.get('name', '')), None): the
\* position of the first such point, 0 for None
FirstWith(sorted_data, label) ==
    IF \E i \in 1..Len(sorted_data) : IsSubstring(label, NameOf(sorted_data[i]))
    THEN SetMin({i \in 1..Len(sorted_data) : IsSubstring(label, NameOf(sorted_data[i]))})
    ELSE 0

\* "if feb_2021 and jan_2021": Jan 2021 against Feb 2021 when both are among
\* the points, else the last two of the sorted points
Periods(sorted_data, feb_2021, jan_2021) ==
    IF feb_2021 # 0 /\ jan_2021 # 0
    THEN [period1 |-> sorted_data[jan_2021], period2 |-> sorted_data[feb_2021]]
    ELSE [period1 |-> sorted_data[Len(sorted_data) - 1],
          period2 |-> sorted_data[Len(sorted_data)]]

PeriodsOf(sorted_data) ==
    Periods(sorted_data, FirstWith(sorted_data, "Feb 2021"), FirstWith(sorted_data, "Jan 2021"))

\* "Calculate percentage change": ((period2_val - period1_val) / period1_val)
\* * 100 for a positive period1_val, else 0.  The amounts of the model make
\* the quotient a whole number that the floats hold exactly.
change_pct(period1_val, period2_val) ==
    IF period1_val > 0
    THEN ((period2_val - period1_val) * 100) \div period1_val
    ELSE 0

Compared(metric_name, periods) ==
    [metric_name |-> metric_name,
     period1_val |-> Series1(periods.period1),
     period2_val |-> Series1(periods.period2),
     period1_label |-> DictGet(periods.period1, "name", JStr("Previous")).v,
     period2_label |-> DictGet(periods.period2, "name", JStr("Current")).v,
     change_pct |-> change_pct(Series1(periods.period1), Series1(periods.period2))]

\* one pass of the loop "for metric_data in all_metrics_data"
ComparisonOf(metric_data) ==
    Compared(metric_data.title, PeriodsOf(SortedByName(metric_data.chart_data)))

detailed_metrics == <<"income", "gross profit", "net income", "cash balance", "cash">>
financial_keywords == <<"income", "revenue", "gross", "ebitda", "net", "expense", "cost">>
operational_keywords ==
    <<"collection", "payment", "inventory", "days", "customer collection", "supplier payment">>

NotDetailed(metric_data) == ~AnyIn(detailed_metrics, Lower(metric_data.title))
HasTwoPoints(metric_data) == Len(metric_data.chart_data) >= 2
IsFinancial(compared) == AnyIn(financial_keywords, Lower(compared.metric_name))
IsOperational(compared) ==
    ~IsFinancial(compared) /\ AnyIn(operational_keywords, Lower(compared.metric_name))

\* format(n, ".1f") of a whole number
OneDecimal(n) == SignedStr(n) \o ".0"

\* the first cards of the dashboard: five financial, three operational
FinancialLimit == 5
OperationalLimit == 3
FirstOf(items, limit) == SubSeq(items, 1, IF Len(items) < limit THEN Len(items) ELSE limit)

\* a financial card shows f"{sign}{change:.1f}%"
FinancialCard(compared) ==
    [metric |-> compared.metric_name,
     text |-> (IF compared.change_pct >= 0 THEN "+" ELSE "")
              \o OneDecimal(compared.change_pct) \o "%"]

\* an operational card shows the two values and their difference
OperationalCard(compared) ==
    [metric |-> compared.metric_name,
     text |-> (IF compared.period2_val - compared.period1_val >= 0 THEN "+" ELSE "")
              \o OneDecimal(compared.period2_val - compared.period1_val)]

CardsOf(financial, operational) ==
    [financial_cards |-> [i \in 1..Len(financial) |-> FinancialCard(financial[i])],
     operational_cards |-> [i \in 1..Len(operational) |-> OperationalCard(operational[i])]]

DashboardOf(comparisons) ==
    [comparisons |-> comparisons,
     cards |-> CardsOf(FirstOf(SelectSeq(comparisons, IsFinancial), FinancialLimit),
                       FirstOf(SelectSeq(comparisons, IsOperational), OperationalLimit))]

ComparisonsOf(dashboard_metrics) ==
    [i \in 1..Len(dashboard_metrics) |-> ComparisonOf(dashboard_metrics[i])]

\* generate_dashboard_html_with_real_data(all_metrics_data): the metrics it
\* compares and the cards it shows
generate_dashboard(all_metrics_data) ==
    DashboardOf(ComparisonsOf(SelectSeq(SelectSeq(all_metrics_data, NotDetailed),
                                        HasTwoPoints)))

(***************************************************************************)
(* The extraction pipeline as a state machine                              *)
(***************************************************************************)
VARIABLES
    entry,      \* the entry point that runs, "none" before the request
    pc,         \* "idle", "preprocess", "preprocessing", "extract", "done"
    text,       \* preprocessed_text, "" while there is none
    call,       \* per completion call: "idle", "running" or "done"
    prompt,     \* per completion call: the text its prompt was built from
    answer,     \* per completion call: what the call did
    slot,       \* per category: the result asyncio.gather holds for it
    finished,   \* the categories in the order their calls completed
    returned,   \* what the entry point returned or raised
    san,        \* the sanitizer run of SpecSanitizer
    kpi,        \* the KPI derivation run of SpecKpi
    norm,       \* the date normalizer run of SpecDates
    files,      \* the slide files of SpecFiles: written, then organized
    req         \* the completion call of SpecCompletion

pipeline_vars == <<entry, pc, text, call, prompt, answer, slot, finished, returned>>
vars == <<entry, pc, text, call, prompt, answer, slot, finished, returned, san, kpi, norm, files, req>>

\* the three metric categories, in the order the coordinators pass them
Categories == <<"revenue", "profitability", "operational">>
CategorySet == {Categories[i] : i \in 1..Len(Categories)}
\* the completion calls of a run: one per category, or the single-pass one
Calls == CategorySet \cup {"single"}
\* the calls whose outcome is kept: those and the preprocessing call
Answered == Calls \cup {"preprocess"}

SinglePassEntries == {"generate_financial_slides", "generate_financial_slides_async"}
PartitionedEntries ==
    {"process_financial_data_with_threadpool_concurrency",
     "process_financial_data_with_true_concurrency"}
\* entry points that run the preprocessing stage first
PreprocessingEntries ==
    PartitionedEntries \cup {"process_financial_data_concurrently"}
Entries == SinglePassEntries \cup PreprocessingEntries

\* what the model makes a category's completion call answer
FencedIncome ==
    "~~~json\n{\"metrics\":[{\"name\":\"Income\",\"chart_data\":[{\"name\":\"Feb 2021\",\"series1\":2},{\"name\":\"Jan 2021\",\"series1\":1}]}]}\n~~~"
TwoMetrics == "{\"metrics\":[{\"name\":\"EBITDA\"},{\"name\":\"Income\"}]}"
OneMetric == "Here are the metrics: {\"metrics\":[{\"name\":\"Cash Flow\"}]}"
NoMetrics == "{\"metrics\":[]}"
NotJson == "I could not find any metrics."
TrailingCommaMetrics == "{\"metrics\":[{\"name\":\"Income\"},]}"

\* answers that are a JSON object with a list of metrics
GoodAnswers ==
    {CallText(FencedIncome), CallText(TwoMetrics), CallText(OneMetric), CallText(NoMetrics)}
\* answers that fail: the call raises, or its text is not JSON
FailedAnswers == {CallRaises, CallText(NotJson), CallText(TrailingCommaMetrics)}
\* answers that are JSON, or no text at all, but not of the requested shape
OddAnswers ==
    {CallNone, CallText(""), CallText("[1]"), CallText("{}"), CallText("{\"metrics\":null}"),
     CallText("{\"metrics\":5}"), CallText("{\"metrics\":\"ab\"}")}

CategoryAnswers == GoodAnswers \cup FailedAnswers \cup OddAnswers

\* a metric whose points hold a series1 that is text, none, or null
NonNumericIncome ==
    "{\"metrics\":[{\"name\":\"Income\",\"chart_data\":[{\"name\":\"Feb 2021\",\"series1\":\"n/a\"},{\"name\":\"Jan 2021\"}]}]}"
NullIncome ==
    "{\"metrics\":[{\"name\":\"Income\",\"chart_data\":[{\"name\":\"Feb 2021\",\"series1\":null}]}]}"

\* answers of the single-pass call: the above, and metric lists whose shape
\* the loops of generate_financial_slides trip over
SinglePassAnswers ==
    CategoryAnswers \cup
    {CallText("{\"title\":\"Report\",\"metrics\":[{\"name\":\"Income\",\"chart_data\":[{\"name\":\"Q-unknown\",\"series1\":3},{\"name\":\"2021-02\",\"series1\":2},{\"name\":\"January 2021\",\"series1\":1}]}]}"),
     CallText(NonNumericIncome), CallText(NullIncome),
     CallText("{\"metrics\":[\"Income\"]}"),
     CallText("{\"metrics\":[{\"name\":\"Income\",\"chart_data\":\"none\"}]}")}

PreprocessAnswers == {CallRaises, CallNone, CallText(CleanedText)}

NoAnswer == [k |-> "pending", text |-> ""]
NoResult == [exc |-> "pending", val |-> JNull]

Init ==
    /\ entry = "none"
    /\ pc = "idle"
    /\ text = ""
    /\ call = [c \in Calls |-> "idle"]
    /\ prompt = [c \in Calls |-> ""]
    /\ answer = [c \in Answered |-> NoAnswer]
    /\ slot = [c \in CategorySet |-> NoResult]
    /\ finished = <<>>
    /\ returned = NoResult
    /\ san = "unused"
    /\ kpi = "unused"
    /\ norm = "unused"
    /\ files = "unused"
    /\ req = "unused"

\* the caller invokes entry point e
Enter(e) ==
    /\ pc = "idle"
    /\ entry' = e
    /\ pc' = IF e \in PreprocessingEntries THEN "preprocess" ELSE "extract"
    /\ text' = IF e \in PreprocessingEntries THEN "" ELSE RawText
    /\ UNCHANGED <<call, prompt, answer, slot, finished, returned, san, kpi, norm, files, req>>

\* the preprocessing stage issues its completion call
PreprocessStart ==
    /\ pc = "preprocess"
    /\ pc' = "preprocessing"
    /\ UNCHANGED <<entry, text, call, prompt, answer, slot, finished, returned, san, kpi, norm, files, req>>

\* the preprocessing call ends with outcome a; the stage returns its text
PreprocessReturn(a) ==
    /\ pc = "preprocessing"
    /\ text' = preprocess_with_deepseek(RawText, a)
    /\ answer' = [answer EXCEPT !["preprocess"] = a]
    /\ pc' = "extract"
    /\ UNCHANGED <<entry, call, prompt, slot, finished, returned, san, kpi, norm, files, req>>

\* the calls a run of entry point e makes in its extraction stage
CallsOf(e) == IF e \in PartitionedEntries THEN CategorySet ELSE {"single"}

Position(c) == CHOOSE i \in 1..Len(Categories) : Categories[i] = c

\* Call c may start.  The thread pool has a worker for each of the three
\* submitted functions.  The coroutines that asyncio.gather runs in
\* process_financial_data_with_true_concurrency never await: the event loop
\* runs each to its end, in the order they were passed, before the next.
MayStart(c) ==
    /\ c \in CallsOf(entry)
    /\ call[c] = "idle"
    /\ entry = "process_financial_data_with_true_concurrency" =>
         \A d \in CategorySet : Position(d) < Position(c) => call[d] = "done"

\* the same, but already while the preprocessing call is in flight, with
\* the prompt built from the raw text as long as there is no other
StartCall_early(c) ==
    /\ pc \in {"preprocessing", "extract"}
    /\ MayStart(c)
    /\ call' = [call EXCEPT ![c] = "running"]
    /\ prompt' = [prompt EXCEPT ![c] = IF text = "" THEN RawText ELSE text]
    /\ UNCHANGED <<entry, pc, text, answer, slot, finished, returned, san, kpi, norm, files, req>>
\* completion call c is issued, its prompt built from the current text
StartCall(c) ==
    /\ pc = "extract"
    /\ MayStart(c)
    /\ call' = [call EXCEPT ![c] = "running"]
    /\ prompt' = [prompt EXCEPT ![c] = text]
    /\ UNCHANGED <<entry, pc, text, answer, slot, finished, returned, san, kpi, norm, files, req>>

\* asyncio.gather(revenue, profitability, operational,
\* return_exceptions=True): the results in the order of its arguments
\* asyncio.as_completed instead: the results in the order they came in
gather_as_completed(slots, completed) == [i \in 1..Len(Categories) |-> slots[completed[i]]]
gather(slots, completed) == [i \in 1..Len(Categories) |-> slots[Categories[i]]]

\* a category's call ends with outcome a and its extract function returns
ReturnCategoryCall(c, a) ==
    /\ pc = "extract"
    /\ c \in CategorySet
    /\ call[c] = "running"
    /\ call' = [call EXCEPT ![c] = "done"]
    /\ answer' = [answer EXCEPT ![c] = a]
    /\ slot' = [slot EXCEPT ![c] = extract_metrics(a)]
    /\ finished' = Append(finished, c)
    /\ UNCHANGED <<entry, pc, text, prompt, returned, san, kpi, norm, files, req>>

\* all three results are in: the coordinator merges them and returns.
\* The timing report after the merge divides by total_duration, the wall
\* clock time of the whole run, which is positive: between the two clock
\* readings the run makes four completion calls and prints.
MergeAndReturn ==
    /\ pc = "extract"
    /\ entry \in PartitionedEntries
    /\ \A c \in CategorySet : call[c] = "done"
    /\ LET results == gather(slot, finished)
       IN  returned' = merge_concurrent_extractions(results[1], results[2], results[3])
    /\ pc' = "done"
    /\ UNCHANGED <<entry, text, call, prompt, answer, slot, finished, san, kpi, norm, files, req>>

\* the single-pass call ends with outcome a and the entry point returns
ReturnSinglePass(a) ==
    /\ pc = "extract"
    /\ call["single"] = "running"
    /\ call' = [call EXCEPT !["single"] = "done"]
    /\ answer' = [answer EXCEPT !["single"] = a]
    /\ returned' = generate_financial_slides(a)
    /\ pc' = "done"
    /\ UNCHANGED <<entry, text, prompt, slot, finished, san, kpi, norm, files, req>>

Next ==
    \/ \E e \in Entries : Enter(e)
    \/ PreprocessStart
    \/ \E a \in PreprocessAnswers : PreprocessReturn(a)
    \/ \E c \in Calls : StartCall(c)
    \/ \E c \in CategorySet, a \in CategoryAnswers : ReturnCategoryCall(c, a)
    \/ MergeAndReturn
    \/ \E a \in SinglePassAnswers : ReturnSinglePass(a)

Spec == Init /\ [][Next]_vars


(***************************************************************************)
(* Slide generation as a state machine: the statistic slides of the        *)
(* extracted metrics are written one by one, then read back and rendered   *)
(***************************************************************************)
\* a point of a series
Point(name, series1) == JObj(<<Member("name", JStr(name)), Member("series1", JNum(series1))>>)

\* the series of the extracted metrics
SeriesSet ==
    {<<Point("Jan 2021", 100), Point("Feb 2021", 150)>>,
     <<Point("Jan 2021", 0), Point("Feb 2021", 50)>>,
     <<Point("Jan 2021", -100), Point("Feb 2021", 50)>>,
     <<Point("Sep 2023", 200), Point("Sep 2024", 150)>>,
     <<Point("Mar 2021", 100), Point("Apr 2021", 200)>>,
     <<Point("Aug 2024", 100), Point("Sep 2024", 150), Point("Oct 2024", 200)>>,
     <<Point("Jan 2021", 100)>>}

\* kpis as the model supplies them: {"vs_previous": {"pct", "from", "to"},
\* "previous_label", "latest_label"}
Kpis(pct, from, to, previous_label, latest_label) ==
    JObj(<<Member("vs_previous",
                  JObj(<<Member("pct", pct), Member("from", JNum(from)), Member("to", JNum(to))>>)),
           Member("previous_label", JStr(previous_label)),
           Member("latest_label", JStr(latest_label))>>)

\* the percentages stated for three pairs of values, right, wrong or null
StatedChanges ==
    {<<JNum(50), 100, 150>>, <<JNum(7), 100, 150>>, <<JNull, 0, 50>>, <<JNum(0), 0, 50>>,
     <<JNum(-150), -100, 50>>, <<JNum(150), -100, 50>>}

\* the pairs of period labels
LabelPairs ==
    {<<"Sep 2023", "Sep 2024">>, <<"Aug 2024", "Sep 2024">>, <<"Q1 2024", "Q2 2024">>,
     <<"Q4 2023", "Q1 2024">>, <<"Period 1", "Period 2">>, <<"", "Sep 2024">>,
     <<"2023", "2024">>, <<"FY 202{{}", "FY 203{{}">>,
     <<"Q1 Mar 2024", "Q2 Jun 2024">>, <<"Q1 2024", "Apr 2024">>}

KpisSet ==
    {JNull, JObj(<<Member("yoy", JObj(<<Member("pct", JNum(20))>>))>>)}
    \cup {Kpis(c[1], c[2], c[3], "Jan 2021", "Feb 2021") : c \in StatedChanges}
    \cup {Kpis(JNum(50), 100, 150, l[1], l[2]) : l \in LabelPairs}

Metric(name, chart_data, kpis) ==
    JObj(<<Member("name", JStr(name)), Member("chart_data", JArr(chart_data)),
           Member("kpis", kpis)>>)

\* the extracted metrics: the first of any kind, the second an expense
\* metric with one of the series and one of three kpis
FirstMetrics ==
    {Metric(name, chart_data, kpis) :
        name \in {"EBITDA", "Net Income", "Collection Days"},
        chart_data \in SeriesSet, kpis \in KpisSet}
SecondMetrics ==
    {Metric("Total Expenses", chart_data, kpis) :
        chart_data \in SeriesSet,
        kpis \in {JNull, Kpis(JNum(50), 100, 150, "Jan 2021", "Feb 2021"),
                  Kpis(JNum(7), 100, 150, "Jan 2021", "Feb 2021")}}

NoDashboard == [comparisons |-> <<>>, cards |-> CardsOf(<<>>, <<>>)]

\* the pipeline stays as it is constructed while slides are generated
PipelineIdle ==
    /\ entry = "none"
    /\ pc = "idle"
    /\ text = ""
    /\ call = [c \in Calls |-> "idle"]
    /\ prompt = [c \in Calls |-> ""]
    /\ answer = [c \in Answered |-> NoAnswer]
    /\ slot = [c \in CategorySet |-> NoResult]
    /\ finished = <<>>
    /\ returned = NoResult

\* parsed_data holds two metrics; no slide is written yet
InitKpi ==
    /\ PipelineIdle
    /\ san = "unused"
    /\ norm = "unused"
    /\ files = "unused"
    /\ req = "unused"
    /\ kpi \in {[stage |-> "extracted", metrics |-> <<m1, m2>>, slides |-> <<>>,
                 kpi_cards |-> <<>>, dashboard |-> NoDashboard] :
                   m1 \in FirstMetrics, m2 \in SecondMetrics}

\* one pass of "for metric in parsed_data.get('metrics', [])": the next
\* statistic slide is written; an exception ends the request
WriteStatisticSlide ==
    /\ kpi.stage = "extracted"
    /\ Len(kpi.slides) < Len(kpi.metrics)
    /\ LET slide == generate_statistic_slide(kpi.metrics[Len(kpi.slides) + 1])
       IN  kpi' = IF slide.exc # "none"
                  THEN [kpi EXCEPT !.stage = slide.exc]
                  ELSE [kpi EXCEPT !.slides = Append(@, slide.val)]
    /\ UNCHANGED <<pipeline_vars, san, norm, files, req>>

\* the data read back from every slide
SlideData(slides) == [i \in 1..Len(slides) |-> parse_tsx_with_data(slides[i])]

\* the slides are read back: each statistic slide gets its KPI card, and the
\* dashboard is built from the data of all of them
RenderSlides ==
    /\ kpi.stage = "extracted"
    /\ Len(kpi.slides) = Len(kpi.metrics)
    /\ kpi' = [kpi EXCEPT
                 !.stage = "rendered",
                 !.kpi_cards = [i \in 1..Len(kpi.slides) |->
                                   kpi_cards(parse_tsx_with_data(kpi.slides[i]))],
                 !.dashboard = generate_dashboard(SlideData(kpi.slides))]
    /\ UNCHANGED <<pipeline_vars, san, norm, files, req>>

NextKpi == WriteStatisticSlide \/ RenderSlides

SpecKpi == InitKpi /\ [][NextKpi]_vars

(***************************************************************************)
(* The sanitizer as a state machine: one response text is taken through    *)
(* the single-pass sanitizer or through the partitioned one                *)
(***************************************************************************)
\* json.dumps(x, separators=(",", ":")) of a value without control
\* characters other than the newline
EscapeCh(c) ==
    CASE c = "\"" -> "\\\""
      [] c = "\\" -> "\\\\"
      [] c = "\n" -> "\\n"
      [] OTHER -> c
Quoted(str) == "\"" \o Join([i \in 1..Len(str) |-> EscapeCh(Ch(str, i))]) \o "\""

\* ",".join(pieces)
JoinComma(pieces) ==
    Join([i \in 1..(2 * Len(pieces)) |->
             IF i % 2 = 1 THEN (IF i = 1 THEN "" ELSE ",") ELSE pieces[i \div 2]])

RECURSIVE Minify(_)
Minify(x) ==
    CASE x.t = "null" -> "null"
      [] x.t = "bool" -> (IF x.v THEN "true" ELSE "false")
      [] x.t = "num" -> SignedStr(x.v)
      [] x.t = "str" -> Quoted(x.v)
      [] x.t = "arr" -> "[" \o JoinComma([i \in 1..Len(x.v) |-> Minify(x.v[i])]) \o "]"
      [] x.t = "obj" ->
           "{" \o JoinComma([i \in 1..Len(x.v) |->
                                Quoted(x.v[i].k) \o ":" \o Minify(x.v[i].x)]) \o "}"

\* the JSON objects a response may carry
ObjectSet ==
    {JObj(<<>>),
     JObj(<<Member("a", JNum(1))>>),
     JObj(<<Member("a", JObj(<<Member("b", JArr(<<JNum(1), JNum(-2)>>))>>)),
            Member("c", JStr("x}y{"))>>),
     JObj(<<Member("metrics", JArr(<<>>))>>),
     JObj(<<Member("title", JStr("Report")),
            Member("metrics", JArr(<<Metric("Income",
                                            <<Point("Feb 2021", 2), Point("Jan 2021", 1)>>,
                                            JNull)>>))>>),
     JObj(<<Member("metrics", JNull)>>),
     JObj(<<Member("metrics", JNum(5))>>),
     JObj(<<Member("metrics", JStr("ab"))>>)}

\* the prose before and after the fenced object
LeadSet == {"", "Here is the data:\n", "  Sure!\n\n", "Result {draft}:\n"}
TrailSet == {"", "\nHope this helps!", "\n\n", "\nDone. {end}"}

\* prose, the json fence, the minified object, the closing fence, prose
Fenced(lead, object, trail) ==
    lead \o FenceJson \o "\n" \o Minify(object) \o "\n" \o Fence \o trail

\* texts that are JSON but for one flaw
FlawedSet ==
    {"{\"a\":1,}", "{\"a\":[1,2,],\"b\":2}", "{\"a\":1}{\"b\":2}", "[{\"a\":1} {\"b\":2}]",
     "{\"a\":1", "{1,}", "[1,]", "{,}"}

ResponseSet ==
    {[kind |-> "fenced", lead |-> lead, object |-> object, trail |-> trail,
      response |-> Fenced(lead, object, trail)] :
        lead \in LeadSet, object \in ObjectSet, trail \in TrailSet}
    \cup {[kind |-> "flawed", lead |-> "", object |-> JNull, trail |-> "",
           response |-> response] : response \in FlawedSet}

InitSanitizer ==
    /\ PipelineIdle
    /\ kpi = "unused"
    /\ norm = "unused"
    /\ files = "unused"
    /\ req = "unused"
    /\ san \in {[stage |-> "response", input |-> r, parsed_data |-> NoResult,
                 returned |-> NoResult] : r \in ResponseSet}

\* generate_financial_slides gets the response: parsed_data is what its
\* cleaning and parsing steps give, returned what the function returns
SanitizeSinglePass ==
    /\ san.stage = "response"
    /\ san' = [san EXCEPT
                 !.stage = "single-pass",
                 !.parsed_data = SinglePassSanitize(san.input.response),
                 !.returned = generate_financial_slides(CallText(san.input.response))]
    /\ UNCHANGED <<pipeline_vars, kpi, norm, files, req>>

\* an extract function gets the response: parsed_data is what
\* _parse_json_response gives, returned what the extract function returns
SanitizePartitioned ==
    /\ san.stage = "response"
    /\ san' = [san EXCEPT
                 !.stage = "partitioned",
                 !.parsed_data = parse_json_response(JStr(san.input.response)),
                 !.returned = extract_metrics(CallText(san.input.response))]
    /\ UNCHANGED <<pipeline_vars, kpi, norm, files, req>>

NextSanitizer == SanitizeSinglePass \/ SanitizePartitioned

SpecSanitizer == InitSanitizer /\ [][NextSanitizer]_vars

(***************************************************************************)
(* Properties of the extraction pipeline (specification Spec)              *)
(***************************************************************************)
\* the metrics the good answers hold, written out by hand
Named(name) == JObj(<<Member("name", JStr(name))>>)
IncomeFebJan ==
    JObj(<<Member("name", JStr("Income")),
           Member("chart_data", JArr(<<Point("Feb 2021", 2), Point("Jan 2021", 1)>>))>>)
ReturnedMetrics(a) ==
    CASE a = CallText(FencedIncome) -> <<IncomeFebJan>>
      [] a = CallText(TwoMetrics) -> <<Named("EBITDA"), Named("Income")>>
      [] a = CallText(OneMetric) -> <<Named("Cash Flow")>>
      [] a = CallText(NoMetrics) -> <<>>

\* a partitioned run has returned
PartitionedDone == pc = "done" /\ entry \in PartitionedEntries

\* what category c adds to the merged list: nothing when its call failed
Contribution(c) ==
    IF answer[c] \in FailedAnswers THEN <<>> ELSE ReturnedMetrics(answer[c])

\* C1: in category-partitioned mode, for every set of categories whose call
\* raises or answers with text that is not JSON, the coordinator returns
\* without raising; each failed category contributes {"metrics": []}, and the
\* merged list is exactly the metrics of the categories that succeeded.
C1_PartialFailureMerge ==
    (PartitionedDone /\ \A c \in CategorySet : answer[c] \in GoodAnswers \cup FailedAnswers)
    => /\ returned.exc = "none"
       /\ \A c \in CategorySet : answer[c] \in FailedAnswers => slot[c] = Ok(EmptyMetrics)
       /\ DictGet(returned.val, "metrics", JNull) =
            JArr(Contribution("revenue") \o Contribution("profitability")
                 \o Contribution("operational"))

\* revenue's call raised, operational's answer was not JSON, and the merged
\* result holds profitability's two metrics
C1_Witness ==
    /\ PartitionedDone
    /\ answer["revenue"] = CallRaises
    /\ answer["profitability"] = CallText(TwoMetrics)
    /\ answer["operational"] = CallText(NotJson)
    /\ returned = Ok(MergedData(<<Named("EBITDA"), Named("Income")>>))

\* C2: the merged list is revenue's metrics, then profitability's, then
\* operational's, whatever the order in which the three calls completed, and
\* metrics that occur twice are kept twice.
C2_MergeOrder ==
    (PartitionedDone /\ \A c \in CategorySet : answer[c] \in GoodAnswers)
    => returned =
         Ok(MergedData(ReturnedMetrics(answer["revenue"])
                       \o ReturnedMetrics(answer["profitability"])
                       \o ReturnedMetrics(answer["operational"])))

\* the calls completed in the reverse order, revenue and profitability
\* answered with the same two metrics, and all five metrics are in the
\* result in the fixed order
C2_Witness ==
    /\ PartitionedDone
    /\ finished = <<"operational", "profitability", "revenue">>
    /\ answer["revenue"] = CallText(TwoMetrics)
    /\ answer["profitability"] = CallText(TwoMetrics)
    /\ answer["operational"] = CallText(OneMetric)
    /\ returned = Ok(MergedData(<<Named("EBITDA"), Named("Income"), Named("EBITDA"),
                                  Named("Income"), Named("Cash Flow")>>))

\* C3: whatever the completion calls do, no entry point raises: each returns
\* a structure.
C3_NoExceptionEscapes ==
    pc = "done" => returned.exc = "none" /\ returned.val.t = "obj"

\* a partitioned run returned although its three answers were JSON of the
\* wrong shape or no text at all
C3_Witness ==
    /\ PartitionedDone
    /\ answer["revenue"] = CallText("{\"metrics\":null}")
    /\ answer["profitability"] = CallNone
    /\ answer["operational"] = CallText("[1]")
    /\ returned = Ok(MergedData(<<>>))

\* the points of chart_data are in the order of their dates
Chronological(chart_data) ==
    \A i, j \in 1..Len(chart_data.v) :
        i < j => PointKey(chart_data.v[i]) <= PointKey(chart_data.v[j])

HasPoints(metric) ==
    /\ metric.t = "obj"
    /\ DictGet(metric, "chart_data", JNull).t = "arr"
    /\ \A i \in 1..Len(DictGet(metric, "chart_data", JNull).v) :
         DictGet(metric, "chart_data", JNull).v[i].t = "obj"

ResultMetrics == DictGet(returned.val, "metrics", JArr(<<>>))

\* C4: in the result of either mode every metric's chart_data is in
\* chronological order.
C4_ChartDataChronological ==
    (pc = "done" /\ returned.exc = "none" /\ ResultMetrics.t = "arr")
    => \A i \in 1..Len(ResultMetrics.v) :
         HasPoints(ResultMetrics.v[i])
         => Chronological(DictGet(ResultMetrics.v[i], "chart_data", JNull))

(***************************************************************************)
(* Properties of slide generation (specification SpecKpi)                  *)
(***************************************************************************)
\* a year token of the form 20dd at position i of a label
Year20At(s, i) ==
    /\ Slice(s, i, i + 1) = "20"
    /\ IsDigit(Slice(s, i + 2, i + 2))
    /\ IsDigit(Slice(s, i + 3, i + 3))
HasYear20(s) == \E i \in 1..Len(s) : Year20At(s, i)
Year20(s) ==
    DigitsValue(Slice(s, SetMin({i \in 1..Len(s) : Year20At(s, i)}),
                      SetMin({i \in 1..Len(s) : Year20At(s, i)}) + 3), 4)

\* the kpis the model supplied for metric i, and what they state
SuppliedKpis(i) == DictGet(kpi.metrics[i], "kpis", JNull)
Supplied(i, key) ==
    IF SuppliedKpis(i).t = "obj" THEN DictGet(SuppliedKpis(i), key, JNull) ELSE JNull
Stated(i, key) ==
    IF Supplied(i, "vs_previous").t = "obj"
    THEN DictGet(Supplied(i, "vs_previous"), key, JNull)
    ELSE JNull

\* both labels of metric i hold a year 20dd and the two years differ
YearsDiffer(i) ==
    /\ Supplied(i, "previous_label").t = "str"
    /\ Supplied(i, "latest_label").t = "str"
    /\ HasYear20(Supplied(i, "previous_label").v)
    /\ HasYear20(Supplied(i, "latest_label").v)
    /\ Year20(Supplied(i, "previous_label").v) # Year20(Supplied(i, "latest_label").v)

\* C5: detect_comparison_type classifies a pair of labels as YoY whenever
\* both hold a year 20dd and the years differ by at least 1, whatever month
\* or quarter tokens they hold; ("Sep 2023", "Sep 2024") is YoY.
C5_YearOverYear ==
    \A i \in 1..Len(kpi.slides) :
        (kpi.slides[i].kpi_prev_percent # "" /\ YearsDiffer(i))
        => StartsWith(kpi.slides[i].kpi_prev_label, "YoY")

\* the financial cards the dashboard shows for the metric of this title
FinancialCardsOf(title) ==
    {c \in {kpi.dashboard.cards.financial_cards[n] :
               n \in 1..Len(kpi.dashboard.cards.financial_cards)} :
        c.metric = title}

\* C6: for a comparison whose from_value is 0 no percentage change is
\* shown: neither a dashboard card nor a KPI card of the statistic slide.
C6_ZeroFromOmitted ==
    kpi.stage = "rendered" =>
        /\ \A n \in 1..Len(kpi.dashboard.comparisons) :
             kpi.dashboard.comparisons[n].period1_val = 0
             => FinancialCardsOf(kpi.dashboard.comparisons[n].metric_name) = {}
        /\ \A i \in 1..Len(kpi.slides) :
             Stated(i, "from") = JNum(0) => kpi.kpi_cards[i] = <<>>

\* (to_value - from_value) / from_value * 100, a whole number for the
\* amounts of the model
Quotient(a, b) == CHOOSE q \in -1000..1000 : q * b = a
ExpectedPercent(from_value, to_value) ==
    Quotient((to_value - from_value) * 100, from_value)

\* C7: every percentage change shown for a pair (from_value, to_value) with
\* from_value # 0 equals (to_value - from_value) / from_value * 100, for a
\* negative from_value as for a positive one.
C7_PercentFormula ==
    kpi.stage = "rendered" =>
        /\ \A n \in 1..Len(kpi.dashboard.comparisons) :
             LET c == kpi.dashboard.comparisons[n]
             IN  c.period1_val # 0 =>
                   \A card \in FinancialCardsOf(c.metric_name) :
                       card.text = (IF ExpectedPercent(c.period1_val, c.period2_val) >= 0
                                    THEN "+" ELSE "")
                                   \o OneDecimal(ExpectedPercent(c.period1_val, c.period2_val))
                                   \o "%"
        /\ \A i \in 1..Len(kpi.slides) :
             (kpi.slides[i].kpi_prev_percent # "" /\ Stated(i, "from").t = "num"
              /\ Stated(i, "from") # JNum(0))
             => kpi.slides[i].kpi_prev_percent =
                  PercentText(ExpectedPercent(Stated(i, "from").v, Stated(i, "to").v))

\* C8: the KPI percentage of a metric is computed from its series and does
\* not depend on the kpis the model supplied: two metrics with the same
\* chart_data get the same KPI percentage.
C8_KpiComputedLocally ==
    \A i, j \in 1..Len(kpi.slides) :
        DictGet(kpi.metrics[i], "chart_data", JNull) = DictGet(kpi.metrics[j], "chart_data", JNull)
        => kpi.slides[i].kpi_prev_percent = kpi.slides[j].kpi_prev_percent

(***************************************************************************)
(* Properties of the sanitizer (specification SpecSanitizer)               *)
(***************************************************************************)
\* C9: a response that is a JSON object but for a trailing comma before "}"
\* or "]" is recovered by the repair pass: for {"a":1,} the parsed object
\* {"a":1} is returned, not the failure fallback.
C9_TrailingCommaRecovered ==
    (san.stage = "single-pass" /\ san.input.response = "{\"a\":1,}")
    => /\ san.parsed_data = Ok(JObj(<<Member("a", JNum(1))>>))
       /\ san.returned = Ok(JObj(<<Member("a", JNum(1))>>))

\* C10: for every JSON object O and every leading and trailing prose, the
\* sanitizer applied to prose, json fence, minified O, closing fence, prose
\* returns a structure equal to O.
C10_FencedRoundTrip ==
    (san.stage # "response" /\ san.input.kind = "fenced")
    => san.parsed_data = Ok(san.input.object)

\* the strict parse of _parse_json_response accepts the text: json.loads of
\* the cleaned text ends without JSONDecodeError
PartitionedAccepts(response) == json_loads(CleanResponse(response)).exc = "none"

\* C11: both modes run the same sanitizer: for every response text the
\* single-pass parser accepts it exactly when the parser of partitioned
\* mode does, the repair of a failed strict parse included.
C11_SameSanitizer ==
    san.stage = "single-pass"
    => (san.parsed_data.exc = "none" <=> PartitionedAccepts(san.input.response))

(***************************************************************************)
(* Further properties of the extraction pipeline (specification Spec)      *)
(***************************************************************************)
\* a run with the single extraction call has returned
SinglePassDone == pc = "done" /\ entry \notin PartitionedEntries

\* C12: when the only completion call of single-pass extraction fails, or
\* its response cannot be parsed even after repair, the default structure
\* is returned: placeholder title, subtitle and date, and no metrics.
C12_DefaultStructure ==
    (SinglePassDone /\ answer["single"] \in FailedAnswers)
    => /\ returned.exc = "none"
       /\ returned.val.t = "obj"
       /\ DictGet(returned.val, "title", JNull) = JStr("Financial Analysis Report")
       /\ DictGet(returned.val, "subtitle", JNull) = JStr("Comprehensive Financial Overview")
       /\ DictGet(returned.val, "date", JNull) = JStr(ThisMonth)
       /\ DictGet(returned.val, "metrics", JNull) = JArr(<<>>)

\* the response held a metric behind a trailing comma, the repair did not
\* make it parse, and the default structure came back without that metric
C12_Witness ==
    /\ SinglePassDone
    /\ entry = "generate_financial_slides"
    /\ answer["single"] = CallText(TrailingCommaMetrics)
    /\ returned = Ok(create_default_structure)

\* C13: a point whose series1 is not a number, or is missing, is coerced to
\* 0 and its metric stays in the result with its other fields.
C13_NonNumericCoerced ==
    (SinglePassDone /\ answer["single"] \in {CallText(NonNumericIncome), CallText(NullIncome)})
    => /\ returned.exc = "none"
       /\ ResultMetrics.t = "arr"
       /\ Len(ResultMetrics.v) = 1
       /\ DictGet(ResultMetrics.v[1], "name", JNull) = JStr("Income")
       /\ HasPoints(ResultMetrics.v[1])
       /\ \A i \in 1..Len(DictGet(ResultMetrics.v[1], "chart_data", JNull).v) :
            DictGet(DictGet(ResultMetrics.v[1], "chart_data", JNull).v[i], "series1", JNull)
              = JNum(0)

\* C15: in both partitioned coordinators the three category calls run
\* concurrently: while the call of one category is in flight, the call of
\* a category that has not started yet can start.
C15_CallsOverlap ==
    \A c, d \in CategorySet :
        (entry \in PartitionedEntries /\ pc = "extract"
         /\ call[c] = "running" /\ call[d] = "idle")
        => ENABLED StartCall(d)

\* C16: in every variant that preprocesses, no extraction call starts
\* before the preprocessing call has ended, and the prompt of every
\* extraction call is built from what the preprocessing stage returned.
C16_PreprocessFirst ==
    entry \in PreprocessingEntries
    => /\ pc \in {"preprocess", "preprocessing"} => \A c \in Calls : call[c] = "idle"
       /\ \A c \in Calls :
            call[c] # "idle" => /\ text \in {CleanedText, RawText}
                                /\ prompt[c] = text

\* preprocessing returned its cleaned text and the revenue call, the first
\* to start, was given a prompt built from it
C16_Witness ==
    /\ entry = "process_financial_data_with_threadpool_concurrency"
    /\ pc = "extract"
    /\ call["revenue"] = "running"
    /\ call["profitability"] = "idle"
    /\ text = CleanedText
    /\ prompt["revenue"] = CleanedText

\* C23: when the three categories together give no metric, the extraction
\* does not return a normal result: a partitioned run that has returned
\* normally holds at least one metric.
C23_ZeroMetricsReported ==
    PartitionedDone => ~(returned.exc = "none" /\ ResultMetrics = JArr(<<>>))

\* metric.get('value') is a non-empty text other than "N/A" and
\* metric.get('label') is non-empty
HasValueAndLabel(metric) ==
    /\ metric.t = "obj"
    /\ Truthy(DictGet(metric, "value", JNull))
    /\ DictGet(metric, "value", JNull) # JStr("N/A")
    /\ Truthy(DictGet(metric, "label", JNull))

\* C24: every metric in the result of generate_financial_slides carries a
\* non-empty 'value' other than 'N/A' and a non-empty 'label'.
C24_ValueAndLabel ==
    (pc = "done" /\ entry = "generate_financial_slides"
     /\ returned.exc = "none" /\ ResultMetrics.t = "arr")
    => \A i \in 1..Len(ResultMetrics.v) : HasValueAndLabel(ResultMetrics.v[i])

\* what the three outcomes of the category calls determine, whichever
\* coordinator ran them and in whatever order they completed
OutcomeOf(a) ==
    merge_concurrent_extractions(extract_metrics(a["revenue"]),
                                 extract_metrics(a["profitability"]),
                                 extract_metrics(a["operational"]))

\* the title and the metrics list of a result, or the exception raised
TitleAndMetrics(result) ==
    IF result.exc # "none" THEN <<result.exc>>
    ELSE <<DictGet(result.val, "title", JNull), DictGet(result.val, "metrics", JNull)>>

\* C25: the thread-pool coordinator and the asyncio-gather coordinator agree
\* in result: the title and the metrics list either returns are determined
\* by the outcomes of the three category calls alone, not by the coordinator
\* or by the order in which the calls ran and completed.
C25_CoordinatorsAgree ==
    PartitionedDone => TitleAndMetrics(returned) = TitleAndMetrics(OutcomeOf(answer))

\* the thread pool's calls completed operational first and profitability's
\* call raised; the result is the one the asyncio coordinator gives for
\* these outcomes, revenue's metric before operational's two
C25_Witness ==
    /\ pc = "done"
    /\ entry = "process_financial_data_with_threadpool_concurrency"
    /\ finished = <<"operational", "revenue", "profitability">>
    /\ answer["revenue"] = CallText(OneMetric)
    /\ answer["profitability"] = CallRaises
    /\ answer["operational"] = CallText(TwoMetrics)
    /\ TitleAndMetrics(returned) =
         <<JStr("Financial Analysis Report"),
           JArr(<<Named("Cash Flow"), Named("EBITDA"), Named("Income")>>)>>

\* the preprocessing call raised or returned None
PreprocessingFailed == answer["preprocess"] \in {CallRaises, CallNone}

\* C30: when the preprocessing completion call raises or returns no text,
\* the preprocessing stage returns the raw text unchanged and does not
\* raise: the run goes on to extraction, and every extraction prompt is
\* built from the raw text.
C30_RawTextFallback ==
    (entry \in PreprocessingEntries /\ PreprocessingFailed)
    => /\ pc \in {"extract", "done"}
       /\ text = RawText
       /\ \A c \in Calls : call[c] # "idle" => prompt[c] = RawText

\* the preprocessing call returned None, and the revenue call of the thread
\* pool was started on the raw text
C30_Witness ==
    /\ entry = "process_financial_data_with_threadpool_concurrency"
    /\ answer["preprocess"] = CallNone
    /\ call["revenue"] = "running"
    /\ prompt["revenue"] = RawText

(***************************************************************************)
(* The pipeline with a completion call that may never return               *)
(* (specification SpecLive)                                                *)
(***************************************************************************)
\* The completion call of category c never returns.  generate_completion
\* passes no timeout to the client, run_in_executor and asyncio.gather wait
\* without a limit, so nothing in the coordinators ends the wait.
Hang(c) ==
    /\ pc = "extract"
    /\ c \in CategorySet
    /\ call[c] = "running"
    /\ \A d \in CategorySet : call[d] # "hung"
    /\ call' = [call EXCEPT ![c] = "hung"]
    /\ UNCHANGED <<entry, pc, text, prompt, answer, slot, finished, returned, san, kpi, norm, files, req>>

NextLive == Next \/ \E c \in CategorySet : Hang(c)

\* every step the program can take is taken eventually: the event loop and
\* the pool threads run, and every call that does not hang returns
SpecLive == Init /\ [][NextLive]_vars /\ WF_vars(NextLive)

\* C14: if one category's completion call never returns, the coordinator
\* still returns eventually.
C14_EventuallyReturns ==
    (entry \in PartitionedEntries /\ \E c \in CategorySet : call[c] = "hung")
    ~> (pc = "done")

(***************************************************************************)
(* Further properties of slide generation (specification SpecKpi)          *)
(***************************************************************************)
\* the labels of LabelPairs that hold a quarter token
QuarterLabels == {"Q1 2024", "Q2 2024", "Q4 2023", "Q1 Mar 2024", "Q2 Jun 2024"}

\* both labels of metric i hold a quarter token
BothQuarters(i) ==
    /\ Supplied(i, "previous_label").t = "str"
    /\ Supplied(i, "latest_label").t = "str"
    /\ Supplied(i, "previous_label").v \in QuarterLabels
    /\ Supplied(i, "latest_label").v \in QuarterLabels

\* C20: detect_comparison_type returns QoQ exactly when the YoY rule (both
\* labels hold a year and the years differ) did not match and both labels
\* hold a quarter token, whether or not they hold month tokens too.
C20_QuarterOverQuarter ==
    \A i \in 1..Len(kpi.slides) :
        kpi.slides[i].kpi_prev_percent # ""
        => (StartsWith(kpi.slides[i].kpi_prev_label, "QoQ")
            <=> (~YearsDiffer(i) /\ BothQuarters(i)))

\* the labels of the model's metrics that hold a month name
MonthLabels ==
    {"Jan 2021", "Feb 2021", "Sep 2023", "Aug 2024", "Sep 2024", "Apr 2024",
     "Q1 Mar 2024", "Q2 Jun 2024"}

\* both labels of metric i hold a month name
BothMonths(i) ==
    /\ Supplied(i, "previous_label").t = "str"
    /\ Supplied(i, "latest_label").t = "str"
    /\ Supplied(i, "previous_label").v \in MonthLabels
    /\ Supplied(i, "latest_label").v \in MonthLabels

\* C21: detect_comparison_type returns MoM exactly when neither the YoY rule
\* (both labels hold a year and the years differ) nor the QoQ rule (both
\* labels hold a quarter token) matched and both labels hold a month name.
C21_MonthOverMonth ==
    \A i \in 1..Len(kpi.slides) :
        kpi.slides[i].kpi_prev_percent # ""
        => (StartsWith(kpi.slides[i].kpi_prev_label, "MoM")
            <=> (~YearsDiffer(i) /\ ~BothQuarters(i) /\ BothMonths(i)))

\* the four kinds of comparison
ComparisonKinds == {"YoY", "QoQ", "MoM", "vs Previous"}

\* one of the two labels of metric i is the empty text
EitherEmpty(i) ==
    \/ Supplied(i, "previous_label") = JStr("")
    \/ Supplied(i, "latest_label") = JStr("")

\* C22: detect_comparison_type returns a kind for every pair of labels (no
\* slide fails on its labels), the kind is one of the four, and it is the
\* generic "vs Previous" when none of the YoY, QoQ and MoM rules matches and
\* when either label is empty.
C22_GenericOrOneKind ==
    /\ kpi.stage # "ValueError"
    /\ \A i \in 1..Len(kpi.slides) :
          kpi.slides[i].kpi_prev_percent # ""
          => /\ \E kind \in ComparisonKinds :
                   StartsWith(kpi.slides[i].kpi_prev_label, kind)
             /\ (EitherEmpty(i) \/ (~YearsDiffer(i) /\ ~BothQuarters(i) /\ ~BothMonths(i)))
                => StartsWith(kpi.slides[i].kpi_prev_label, "vs Previous")

\* the month a label of SeriesSet stands for, as a number that grows with time
MonthOf(label) ==
    CASE label = "Jan 2021" -> 202101
      [] label = "Feb 2021" -> 202102
      [] label = "Mar 2021" -> 202103
      [] label = "Apr 2021" -> 202104
      [] label = "Sep 2023" -> 202309
      [] label = "Aug 2024" -> 202408
      [] label = "Sep 2024" -> 202409
      [] label = "Oct 2024" -> 202410

\* the points the model gave for metric i
PointsOf(i) == DictGet(kpi.metrics[i], "chart_data", JArr(<<>>)).v

HasLabel(points, label) == \E p \in 1..Len(points) : NameOf(points[p]) = label

\* the label of the point that has r later points: the most recent for r = 0
RecentLabel(points, r) ==
    NameOf(points[CHOOSE p \in 1..Len(points) :
                     Cardinality({q \in 1..Len(points) :
                                     MonthOf(NameOf(points[q])) > MonthOf(NameOf(points[p]))}) = r])

\* C26: for a dashboard metric with at least two points and no "Jan 2021" /
\* "Feb 2021" pair, 'previous' is the second most recent period in time and
\* 'current' the most recent one.
C26_TwoMostRecent ==
    kpi.stage = "rendered"
    => \A n \in 1..Len(kpi.dashboard.comparisons), i \in 1..Len(kpi.metrics) :
         (/\ kpi.dashboard.comparisons[n].metric_name = kpi.slides[i].title
          /\ Len(PointsOf(i)) >= 2
          /\ ~(HasLabel(PointsOf(i), "Jan 2021") /\ HasLabel(PointsOf(i), "Feb 2021")))
         => /\ kpi.dashboard.comparisons[n].period1_label = RecentLabel(PointsOf(i), 1)
            /\ kpi.dashboard.comparisons[n].period2_label = RecentLabel(PointsOf(i), 0)

(***************************************************************************)
(* The date normalizer as a state machine: the chart_data of one metric    *)
(* is sorted, and the sorted list is sorted once more                      *)
(***************************************************************************)
\* the period labels of the points: four spellings of one month, two other
\* months, and two labels that match none of the formats
LabelSet ==
    {"Jan 2021", "January 2021", "01/2021", "2021-01", "Feb 2021", "Dec 2020",
     "Q-unknown", "FY21"}

\* the longest chart_data of the model
MaxPoints == 3

\* chart_data as the model returns it: points in any order
ChartDataSet ==
    UNION {[1..n -> {Point(label, 1) : label \in LabelSet}] : n \in 0..MaxPoints}

InitDates ==
    /\ PipelineIdle
    /\ san = "unused"
    /\ kpi = "unused"
    /\ norm \in {[stage |-> "chart_data", chart_data |-> c, keys |-> <<>>,
                  sorted |-> <<>>, resorted |-> <<>>] : c \in ChartDataSet}
    /\ files = "unused"
    /\ req = "unused"

\* metric['chart_data'] = self._sort_chart_data_chronologically(...); keys
\* are the keys sorted() computed for the points
SortSeries ==
    /\ norm.stage = "chart_data"
    /\ norm' = [norm EXCEPT
                  !.stage = "sorted",
                  !.keys = [i \in 1..Len(norm.chart_data) |-> PointKey(norm.chart_data[i])],
                  !.sorted = sort_chart_data_chronologically(JArr(norm.chart_data)).v]
    /\ UNCHANGED <<pipeline_vars, san, kpi, files, req>>

\* the sorted chart_data goes through _sort_chart_data_chronologically again
SortAgain ==
    /\ norm.stage = "sorted"
    /\ norm' = [norm EXCEPT
                  !.stage = "resorted",
                  !.resorted = sort_chart_data_chronologically(JArr(norm.sorted)).v]
    /\ UNCHANGED <<pipeline_vars, san, kpi, files, req>>

NextDates == SortSeries \/ SortAgain

SpecDates == InitDates /\ [][NextDates]_vars

(***************************************************************************)
(* Properties of the date normalizer (specification SpecDates)             *)
(***************************************************************************)
\* C17: _sort_chart_data_chronologically is idempotent: sorting the sorted
\* list again gives the same points in the same order, also with duplicate
\* and unparseable labels.
C17_SortIdempotent ==
    norm.stage = "resorted" => norm.resorted = norm.sorted

\* two spellings of one month behind an unparseable label were sorted, and
\* the second sort left them as the first had put them
C17_Witness ==
    /\ norm.stage = "resorted"
    /\ norm.chart_data = <<Point("Q-unknown", 1), Point("January 2021", 1), Point("Jan 2021", 1)>>
    /\ norm.sorted = <<Point("January 2021", 1), Point("Jan 2021", 1), Point("Q-unknown", 1)>>
    /\ norm.resorted = norm.sorted

\* the labels of LabelSet that match none of the four formats
UnparseableLabels == {"Q-unknown", "FY21"}
Unparseable(point) == NameOf(point) \in UnparseableLabels

\* C18: a point whose label matches none of the four formats comes after
\* every point with a parseable label, wherever it was in the input, and
\* several such points keep their input order.
C18_UnparseableLast ==
    norm.stage = "sorted"
    => /\ \A i, j \in 1..Len(norm.sorted) :
            (i < j /\ Unparseable(norm.sorted[i])) => Unparseable(norm.sorted[j])
       /\ SelectSeq(norm.sorted, Unparseable) = SelectSeq(norm.chart_data, Unparseable)

\* two unparseable labels before a parseable one: the parseable one is first
\* afterwards and the other two are in their input order
C18_Witness ==
    /\ norm.stage = "sorted"
    /\ norm.chart_data = <<Point("Q-unknown", 1), Point("FY21", 1), Point("Feb 2021", 1)>>
    /\ norm.sorted = <<Point("Feb 2021", 1), Point("Q-unknown", 1), Point("FY21", 1)>>

\* the year and month a parseable label of LabelSet stands for
YearMonth(label) ==
    CASE label \in {"Jan 2021", "January 2021", "01/2021", "2021-01"} -> <<2021, 1>>
      [] label = "Feb 2021" -> <<2021, 2>>
      [] label = "Dec 2020" -> <<2020, 12>>

Earlier(a, b) == a[1] < b[1] \/ (a[1] = b[1] /\ a[2] < b[2])

\* C19: the four spellings of one month and year get the same sort key, and
\* labels of different months get keys in the order of (year, month).
C19_SpellingsAndOrder ==
    norm.stage = "sorted"
    => \A i, j \in 1..Len(norm.chart_data) :
         (~Unparseable(norm.chart_data[i]) /\ ~Unparseable(norm.chart_data[j]))
         => /\ YearMonth(NameOf(norm.chart_data[i])) = YearMonth(NameOf(norm.chart_data[j]))
               => norm.keys[i] = norm.keys[j]
            /\ Earlier(YearMonth(NameOf(norm.chart_data[i])),
                       YearMonth(NameOf(norm.chart_data[j])))
               => norm.keys[i] < norm.keys[j]

\* the four spellings need three points at least; here three of them and
\* then the fourth with two other months
C19_Witness ==
    /\ norm.stage = "sorted"
    /\ norm.chart_data = <<Point("2021-01", 1), Point("Feb 2021", 1), Point("Dec 2020", 1)>>
    /\ norm.keys = <<20210101, 20210201, 20201201>>
    /\ norm.sorted = <<Point("Dec 2020", 1), Point("2021-01", 1), Point("Feb 2021", 1)>>

(***************************************************************************)
(* Slide organization: generate_presentation writes the slide files and    *)
(* _filter_to_ten_slides picks and orders the ones that go into the PDF    *)
(***************************************************************************)
\* file in selected_files
InList(file, selected_files) == \E i \in 1..Len(selected_files) : selected_files[i] = file

priority_metrics == <<"Income", "Gross", "Net", "Cash">>
slide_priority == <<"Title", "Dashboard", "Income", "Gross", "Net", "Cash">>

\* the positions of the files that "if pattern in Path(file).name and file
\* not in selected_files" lets through; a file stands for its name
MatchesOf(all_files, selected_files, pattern) ==
    {i \in 1..Len(all_files) :
        IsSubstring(pattern, all_files[i]) /\ ~InList(all_files[i], selected_files)}

\* the inner loop over all_files: the first match is appended, then break
AppendFirst(all_files, selected_files, matches) ==
    IF matches = {} THEN selected_files
    ELSE Append(selected_files, all_files[SetMin(matches)])

\* one pass of "for i, pattern in enumerate(slide_priority)"
AddPattern(all_files, selected_files, pattern) ==
    AppendFirst(all_files, selected_files, MatchesOf(all_files, selected_files, pattern))

\* selected_files after the first n patterns of slide_priority
RECURSIVE AddInPriorityOrder(_, _)
AddInPriorityOrder(all_files, n) ==
    IF n = 0 THEN <<>>
    ELSE AddPattern(all_files, AddInPriorityOrder(all_files, n - 1), slide_priority[n])

\* one pass of the second loop: a file that is not selected yet and holds
\* none of priority_metrics in its name is appended
AppendAdditional(selected_files, file) ==
    IF ~InList(file, selected_files) /\ ~AnyIn(priority_metrics, file)
    THEN Append(selected_files, file)
    ELSE selected_files

\* selected_files after the second loop has passed the first n files
RECURSIVE AddRemaining(_, _, _)
AddRemaining(all_files, selected_files, n) ==
    IF n = 0 THEN selected_files
    ELSE AppendAdditional(AddRemaining(all_files, selected_files, n - 1), all_files[n])

\* selected_files[:6]
SlideLimit == 6
Limited(selected_files) ==
    SubSeq(selected_files, 1,
           IF Len(selected_files) < SlideLimit THEN Len(selected_files) ELSE SlideLimit)

\* the result without the cut to six slides
filter_to_ten_slides_unlimited(all_files) ==
    AddRemaining(all_files, AddInPriorityOrder(all_files, Len(slide_priority)), Len(all_files))
\* _filter_to_ten_slides(all_files, output_dir)
filter_to_ten_slides(all_files) ==
    Limited(AddRemaining(all_files, AddInPriorityOrder(all_files, Len(slide_priority)),
                         Len(all_files)))

\* metric_name.replace(" ", "")
safe_name(metric_name) ==
    Join([i \in 1..Len(metric_name) |->
             IF Ch(metric_name, i) = " " THEN "" ELSE Ch(metric_name, i)])

\* the file _generate_statistic_slide writes for a metric of this name
StatisticFile(metric_name) == safe_name(metric_name) \o "StatisticSlide.tsx"
TitleFile == "FinancialTitleSlide.tsx"
DashboardFile == "BusinessDashboardSlide.tsx"

\* the names of the extracted metrics
MetricNames ==
    {"Income", "Net Income", "Gross Profit", "Cash Balance", "EBITDA", "Total Expenses"}

\* the largest number of extracted metrics
MaxMetrics == 5

\* generate_presentation before it writes the first slide
InitFiles ==
    /\ PipelineIdle
    /\ san = "unused"
    /\ kpi = "unused"
    /\ norm = "unused"
    /\ req = "unused"
    /\ files = [stage |-> "start", all_tsx_files |-> <<>>, tsx_files |-> <<>>]

\* the title slide and the dashboard slide are written
WriteTitleAndDashboard ==
    /\ files.stage = "start"
    /\ files' = [files EXCEPT !.stage = "metrics",
                              !.all_tsx_files = <<TitleFile, DashboardFile>>]
    /\ UNCHANGED <<pipeline_vars, san, kpi, norm, req>>

\* one pass of "for metric in parsed_data.get('metrics', [])"
WriteStatisticFile(metric_name) ==
    /\ files.stage = "metrics"
    /\ Len(files.all_tsx_files) < 2 + MaxMetrics
    /\ files' = [files EXCEPT !.all_tsx_files = Append(@, StatisticFile(metric_name))]
    /\ UNCHANGED <<pipeline_vars, san, kpi, norm, req>>

\* tsx_files = _filter_to_ten_slides(all_tsx_files, output_dir), after the
\* last metric
OrganizeSlides ==
    /\ files.stage = "metrics"
    /\ files' = [files EXCEPT !.stage = "organized",
                              !.tsx_files = filter_to_ten_slides(files.all_tsx_files)]
    /\ UNCHANGED <<pipeline_vars, san, kpi, norm, req>>

NextFiles ==
    \/ WriteTitleAndDashboard
    \/ \E metric_name \in MetricNames : WriteStatisticFile(metric_name)
    \/ OrganizeSlides

SpecFiles == InitFiles /\ [][NextFiles]_vars

(***************************************************************************)
(* Properties of slide organization (specification SpecFiles)              *)
(***************************************************************************)
\* the priority patterns in the order of the flow
PriorityOrder == <<"Title", "Dashboard", "Income", "Gross", "Net", "Cash">>

\* where a file stands first in a list
PlaceIn(list, file) == SetMin({i \in 1..Len(list) : list[i] = file})

\* the patterns after place p of the order that match a file
LaterPatterns(file, p) ==
    {q \in (p + 1)..Len(PriorityOrder) : IsSubstring(PriorityOrder[q], file)}

\* how many leading files of the result, from place a on, are matched one
\* after the other by patterns in the order of the flow, after pattern p
RECURSIVE PriorityPrefix(_, _, _)
PriorityPrefix(result, a, p) ==
    IF a > Len(result) \/ LaterPatterns(result[a], p) = {} THEN a - 1
    ELSE PriorityPrefix(result, a + 1, SetMin(LaterPatterns(result[a], p)))

\* the files after the first k are matched by no pattern and stand in their
\* input order
OthersFollow(result, input, k) ==
    /\ \A a \in (k + 1)..Len(result) : ~AnyIn(PriorityOrder, result[a])
    /\ \A a, b \in (k + 1)..Len(result) :
          a < b => PlaceIn(input, result[a]) < PlaceIn(input, result[b])

C28_IncomeSlideKept ==
    (/\ files.stage = "organized"
     /\ InList("IncomeStatisticSlide.tsx", files.all_tsx_files)
     /\ InList(TitleFile, files.all_tsx_files)
     /\ InList(DashboardFile, files.all_tsx_files))
    => InList("IncomeStatisticSlide.tsx", files.tsx_files)

(***************************************************************************)
(* The completion client as a state machine: one call of                   *)
(* AIService.generate_completion with its overrides                        *)
(***************************************************************************)
\* a or b
PyOr(a, b) == IF Truthy(a) THEN a ELSE b

\* params["max_tokens"] = max_tokens or self.max_tokens, only "if max_tokens
\* or self.max_tokens"
WithMaxTokens(params, max_tokens) ==
    IF Truthy(max_tokens)
    THEN JObj(PutMember(params.v, "max_tokens", max_tokens))
    ELSE params

\* the params of the request: the temperature, and max_tokens if there is one
RequestParams(self, temperature, max_tokens) ==
    WithMaxTokens(JObj(<<Member("temperature", PyOr(temperature, self.temperature))>>),
                  PyOr(max_tokens, self.max_tokens))

\* config.temperature and config.max_tokens; temperatures count in tenths
Configs ==
    {[temperature |-> JNum(t), max_tokens |-> JNum(m)] : t \in {7, 0}, m \in {4000, 0}}

\* the overrides a caller passes: None, 0, or another value
TemperatureOverrides == {JNull, JNum(0), JNum(2)}
MaxTokensOverrides == {JNull, JNum(0), JNum(500)}

\* what the upstream does with the request
UpstreamAnswers == {CallRaises, CallNone, CallText(CleanedText)}

\* generate_completion(messages, temperature, max_tokens) has been called
InitCompletion ==
    /\ PipelineIdle
    /\ san = "unused"
    /\ kpi = "unused"
    /\ norm = "unused"
    /\ files = "unused"
    /\ req \in {[stage |-> "called", self |-> c, temperature |-> t, max_tokens |-> m,
                 requests |-> <<>>, answer |-> NoAnswer, result |-> NoResult] :
                   c \in Configs, t \in TemperatureOverrides, m \in MaxTokensOverrides}

\* the params are prepared and self.client.chat.completions.create(**params)
\* is called
CreateRequest ==
    /\ req.stage = "called"
    /\ req' = [req EXCEPT
                 !.stage = "waiting",
                 !.requests = Append(@, RequestParams(req.self, req.temperature,
                                                      req.max_tokens))]
    /\ UNCHANGED <<pipeline_vars, san, kpi, norm, files>>

\* the upstream call ends with outcome a: generate_completion returns the
\* content of the message or raises
CompletionReturns(a) ==
    /\ req.stage = "waiting"
    /\ req' = [req EXCEPT !.stage = "returned", !.answer = a,
                          !.result = generate_completion(a)]
    /\ UNCHANGED <<pipeline_vars, san, kpi, norm, files>>

NextCompletion ==
    \/ CreateRequest
    \/ \E a \in UpstreamAnswers : CompletionReturns(a)

SpecCompletion == InitCompletion /\ [][NextCompletion]_vars

(***************************************************************************)
(* Properties of the completion client (specification SpecCompletion)      *)
(***************************************************************************)
\* the value the one request carries under a key, None if it has none
Sent(key) == DictGet(req.requests[1], key, JNull)

\* C29: generate_completion makes exactly one upstream request per call; the
\* request carries the caller's temperature and max_tokens whenever they are
\* given, an override of 0 included, and the configured defaults only when
\* they are not given; when the upstream fails, it raises.
C29_OneRequestWithOverrides ==
    req.stage # "called"
    => /\ Len(req.requests) = 1
       /\ req.temperature # JNull => Sent("temperature") = req.temperature
       /\ req.temperature = JNull => Sent("temperature") = req.self.temperature
       /\ req.max_tokens # JNull => Sent("max_tokens") = req.max_tokens
       /\ req.max_tokens = JNull => Sent("max_tokens") \in {req.self.max_tokens, JNull}
       /\ (req.stage = "returned" /\ req.answer = CallRaises) => req.result.exc # "none"

=============================================================================
